---- MODULE Spec2Model ----
(***************************************************************************)
(* Authentication and account security of the warehouse backend:           *)
(* login with brute-force lockout, TOTP two-factor authentication, signed  *)
(* session tokens, and the audit / security-event trail.                   *)
(*                                                                         *)
(* Time is the UTC clock in seconds.  A database table is a bag of rows    *)
(* (rows without their surrogate id and server timestamp).                 *)
(*                                                                         *)
(* A handler is a coroutine with a database session of its own.  It runs   *)
(* without interruption from one awaited database call to the next.  The   *)
(* first step of a request is its arrival: the framework validates the     *)
(* body, resolves the dependencies (the bearer token, the rate limiter)    *)
(* and runs the handler up to its first awaited database call.  Every      *)
(* later step is one awaited call taking effect together with the code     *)
(* that runs until the coroutine awaits again or returns.  Between two     *)
(* steps of a request the clock may advance and other requests may run.    *)
(*                                                                         *)
(* The store is the PostgreSQL database of the configuration: foreign     *)
(* keys and unique constraints are enforced at the commit, and ids come    *)
(* from a sequence.                                                        *)
(***************************************************************************)
EXTENDS Integers, Sequences, FiniteSets, Bags, TLC

VARIABLES
    users,            \* users table: id -> row, NoRow where there is none (committed state)
    users_id_seq,     \* the last value of the sequence behind users.id
    security_events,  \* security_events table: bag of rows
    audit_logs,       \* audit_logs table: bag of rows
    now,              \* datetime.utcnow(), seconds
    tz,               \* UTC offset of the server's local time zone, seconds
    hits,             \* login requests the rate limiter has counted in its window
    resp,             \* the response of the last completed request
    reqs,             \* connection -> the request it carries, where its coroutine stands
    arg               \* inputs of the function under evaluation (function specifications)

vars == <<users, users_id_seq, security_events, audit_logs, now, tz, hits, resp, reqs, arg>>

----------------------------------------------------------------------------
(* Bounds of the model *)

\* failed_login_attempts is explored up to this value
MaxFailed == 6
\* rows explored in the security_events table
MaxEvents == 7
\* rows explored in the audit_logs table
MaxAudit == 2
\* number of clock advances explored
MaxTicks == 2
\* rows added to security_events / audit_logs when exploring the login decision
MaxNewEvents == 2
MaxNewAudit == 1
MaxLoginHits == 2
\* seconds per clock advance
TickSeconds == 1000
\* connections carrying concurrent login requests
MaxReqs == 3
\* connections carrying concurrent login and logout requests
MaxStepReqs == 2
\* TOTP codes submitted are those of time steps 0..MaxTotpStep
MaxTotpStep == 5
\* passwords validated have at most MaxPwLen characters
MaxPwLen == 8
\* the two-factor scenario: failed logins and clock ticks
MaxTwoFactorLogged == 1
MaxTwoFactorTicks == 1
MaxTwoFactorHits == 1
\* the session scenario: rows logged, logins counted in a window, clock ticks
MaxSessionLogged == 1
MaxSessionHits == 1
MaxSessionTicks == 1
\* the stale-token scenario: rows logged, logins counted, clock ticks
MaxStaleLogged == 2
MaxStaleHits == 1
MaxStaleTicks == 1
\* the password-change scenario: clock ticks
MaxChangeTicks == 1
\* the user-management scenario: rows logged, logins counted
MaxUsersLogged == 1
MaxUsersHits == 1
MaxUsersTicks == 1

(* Program constants *)

ACCESS_TOKEN_EXPIRE_MINUTES == 30
REFRESH_TOKEN_EXPIRE_DAYS == 7
REMEMBER_ME_DAYS == 7
LOCK_THRESHOLD == 5
LOCK_MINUTES == 30
TOTP_INTERVAL == 30
VALID_WINDOW == 1
TOTP_MODULUS == 1000000
\* @limiter.limit("5/minute")
RATE_LIMIT == 5
RATE_WINDOW == 60

\* Python None / SQL NULL for the nullable integer-valued columns and claims
NULL == -1

SECRET_KEY == "server-key"

Minutes(m) == m * 60
Days(d) == d * 86400

----------------------------------------------------------------------------
(* Users, passwords *)

\* ids the sequence of users.id gives out
UserIds == {1, 2}

\* lookup result when no row matches
NoUser == 0

\* no row: the select matched nothing, the row is deleted, or none is loaded
NoRow == <<>>

\* what a client may type into the username field
LoginNames == {"alice@example.com", "mallory"}

\* str.isupper(), str.islower(), str.isdigit() of a character
UpperChars == {"A", "B", "C", "D", "E", "F", "G", "H", "I", "J", "K", "L", "M",
               "N", "O", "P", "Q", "R", "S", "T", "U", "V", "W", "X", "Y", "Z"}
LowerChars == {"a", "b", "c", "d", "e", "f", "g", "h", "i", "j", "k", "l", "m",
               "n", "o", "p", "q", "r", "s", "t", "u", "v", "w", "x", "y", "z"}
DigitChars == {"0", "1", "2", "3", "4", "5", "6", "7", "8", "9"}

PwInitial == <<"P", "a", "s", "s", "w", "0", "r", "d">>
PwNew == <<"N", "e", "w", "S", "e", "c", "r", "9">>
PwWrong == <<"w", "r", "x", "x", "x", "x", "x", "x">>
\* a new password without a digit
PwNoDigit == <<"N", "e", "w", "S", "e", "c", "r", "t">>
\* a new password of three characters
PwShort == <<"N", "e", "1">>
\* a password field left empty
NoPassword == <<>>

\* what a client types when the password is never changed
LoginPasswords == {PwInitial, PwWrong}

LockoutNames == {"alice"}

\* the salts pwd_context.hash draws from
Salts == {1, 2}

\* pwd_context.hash(password): a bcrypt hash holds the salt that hash() drew
\* for it and the digest of the password under that salt, so two hashes of
\* one password differ when their salts do
get_password_hash(password, salt) ==
    [scheme |-> "bcrypt", salt |-> salt, digest |-> <<salt, password>>]

\* pwd_context.verify: the password is hashed again with the salt of the
\* stored hash and the results are compared
verify_password(plain_password, hashed_password) ==
    hashed_password = get_password_hash(plain_password, hashed_password.salt)

----------------------------------------------------------------------------
(* TOTP *)

TotpSecrets == {1, 2}

TimeStep(t) == t \div TOTP_INTERVAL

\* pyotp.TOTP(secret).at(for_time, counter_offset): the 6-digit code of a step
TotpAt(secret, step) == (secret * 7919 + step * 104729) % TOTP_MODULUS

\* the optional totp_code field left out of the request
NoCode == NULL

\* faulty variant: verify called without valid_window
verify_totp_token_NoWindow(secret, token, t) ==
    token = TotpAt(secret, TimeStep(t))

verify_totp_token(secret, token, t) ==
    \E i \in (0 - VALID_WINDOW)..VALID_WINDOW : token = TotpAt(secret, TimeStep(t) + i)

----------------------------------------------------------------------------
(* Session tokens (JWT, HS256) *)

\* str(user.id) and int(user_id)
StrOf(id) == IF id = 1 THEN "1" ELSE "2"
IntOf(s) == IF s = "1" THEN 1 ELSE 2

\* verify_token's None
None == "None"

TokenKinds == {"access", "refresh"}

NoToken == [sub |-> None, type |-> "none", exp |-> NULL, key |-> "none"]

\* Optional[timedelta]: None, or a timedelta of so many seconds
NoDelta == <<>>
timedelta(seconds) == <<seconds>>

\* `if expires_delta:` is false for None and for timedelta(0)
create_access_token(subject, expires_delta, t) ==
    LET expire == IF expires_delta # NoDelta /\ expires_delta[1] # 0
                  THEN t + expires_delta[1]
                  ELSE t + Minutes(ACCESS_TOKEN_EXPIRE_MINUTES)
    IN [sub |-> StrOf(subject), type |-> "access", exp |-> expire, key |-> SECRET_KEY]

create_refresh_token(subject, t) ==
    [sub |-> StrOf(subject), type |-> "refresh",
     exp |-> t + Days(REFRESH_TOKEN_EXPIRE_DAYS), key |-> SECRET_KEY]

\* jose jwt.decode: the signature check, then the exp claim against the UTC clock
JwtDecodes(token, t) == token.key = SECRET_KEY /\ ~(token.exp < t)

\* datetime.fromtimestamp(exp): the expiry as a naive local-time value
FromTimestamp(exp, offset) == exp + offset

verify_token(token, token_type, t, offset) ==
    IF ~JwtDecodes(token, t) THEN None
    ELSE IF token.sub = None \/ token.type # token_type THEN None
    ELSE IF t > FromTimestamp(token.exp, offset) THEN None
    ELSE token.sub

----------------------------------------------------------------------------
(* Tables and rows *)

\* SecurityEvent(event_type, severity, ..., user_id); address and text left out
SecurityEvent(event_type, severity, user_id) ==
    [event_type |-> event_type, severity |-> severity, user_id |-> user_id]

\* AuditLog(user_id, action, resource, ...); address and text left out
AuditLog(user_id, action, resource) ==
    [user_id |-> user_id, action |-> action, resource |-> resource]

\* db.add(row); await db.commit()
log_security_event(table, event_type, severity, user_id) ==
    table (+) SetToBag({SecurityEvent(event_type, severity, user_id)})

log_audit_event(table, user_id, action, resource) ==
    table (+) SetToBag({AuditLog(user_id, action, resource)})

\* the rows of the users table
Rows == {u \in UserIds : users[u] # NoRow}

\* the row of the users table with this id, as a session loads it
Row(uid) == IF uid \in UserIds THEN users[uid] ELSE NoRow

\* select(User).where((User.username == username) | (User.email == email)):
\* the ids of the rows that match
Matching(username, email) ==
    {u \in Rows : users[u].username = username \/ users[u].email = email}

\* result.scalar_one_or_none() when at most one row matches
FindByUsernameOrEmail(name) ==
    IF Matching(name, name) # {}
    THEN CHOOSE u \in Matching(name, name) : TRUE
    ELSE NoUser

----------------------------------------------------------------------------
(* Responses *)

NoProfile == [id |-> NoUser, email |-> "", username |-> "",
              language |-> "", timezone |-> "",
              is_2fa_enabled |-> FALSE, last_login |-> NULL]

\* faulty variant: the profile is built from the whole row
UserProfile_WithSecret(id, user) ==
    [id |-> id, email |-> user.email, username |-> user.username,
     language |-> user.language, timezone |-> user.timezone,
     is_2fa_enabled |-> user.is_2fa_enabled, last_login |-> user.last_login,
     totp_secret |-> user.totp_secret]

\* UserProfile(id=user.id, email=user.email, ...)
UserProfile(id, user) ==
    [id |-> id, email |-> user.email, username |-> user.username,
     language |-> user.language, timezone |-> user.timezone,
     is_2fa_enabled |-> user.is_2fa_enabled, last_login |-> user.last_login]

\* raise HTTPException(status_code, detail), and the plain message responses
Message(op, status, detail) ==
    [op |-> op, status |-> status, detail |-> detail, errors |-> <<>>,
     access_token |-> NoToken, refresh_token |-> NoToken,
     expires_in |-> NULL, user |-> NoProfile,
     until |-> NULL, secret |-> NULL, backup_codes |-> 0]

\* RequestValidationError: 422 with the errors of the body, one per field
\* that fails, in the order of the fields; detail is the first message
Invalid(op, errors) ==
    [Message(op, 422, errors[1][2]) EXCEPT !.errors = errors]

\* an exception no handler catches: get_db rolls the session back and the
\* application answers 500
ServerError(op) == Message(op, 500, "Internal server error")

\* Token(access_token, refresh_token, expires_in, user)
Token(op, access_token, refresh_token, expires_in, profile) ==
    [op |-> op, status |-> 200, detail |-> "", errors |-> <<>>,
     access_token |-> access_token, refresh_token |-> refresh_token,
     expires_in |-> expires_in, user |-> profile,
     until |-> NULL, secret |-> NULL, backup_codes |-> 0]

NoResponse == Message("none", 0, "")

----------------------------------------------------------------------------
(* Login *)

\* faulty variant: the lock is set only after the threshold is exceeded
RecordFailure_LateLock(user, t) ==
    LET n == user.failed_login_attempts + 1
    IN [user EXCEPT !.failed_login_attempts = n,
                    !.locked_until = IF n > LOCK_THRESHOLD
                                     THEN t + Minutes(LOCK_MINUTES)
                                     ELSE @]

\* faulty variant: the lock is set by the fifth failure only
RecordFailure_LocksOnce(user, t) ==
    LET n == user.failed_login_attempts + 1
    IN [user EXCEPT !.failed_login_attempts = n,
                    !.locked_until = IF n = LOCK_THRESHOLD
                                     THEN t + Minutes(LOCK_MINUTES)
                                     ELSE @]

\* user.failed_login_attempts += 1; lock at the threshold
RecordFailure(user, t) ==
    LET n == user.failed_login_attempts + 1
    IN [user EXCEPT !.failed_login_attempts = n,
                    !.locked_until = IF n >= LOCK_THRESHOLD
                                     THEN t + Minutes(LOCK_MINUTES)
                                     ELSE @]

\* faulty variant: a lock never runs out
IsLocked_NeverExpires(user, t) == user.locked_until # NULL

\* user.locked_until and user.locked_until > datetime.utcnow()
IsLocked(user, t) == user.locked_until # NULL /\ user.locked_until > t

\* faulty variant: a successful login leaves the lock timestamp in place
RecordSuccess_KeepsLock(user, t) ==
    [user EXCEPT !.failed_login_attempts = 0,
                 !.last_login = t]

\* faulty variant: a successful login lifts the lock and keeps the counter
RecordSuccess_KeepsCounter(user, t) ==
    [user EXCEPT !.locked_until = NULL,
                 !.last_login = t]

\* reset failed attempts on successful login
RecordSuccess(user, t) ==
    [user EXCEPT !.failed_login_attempts = 0,
                 !.locked_until = NULL,
                 !.last_login = t]

\* timedelta(days=7) if remember_me else None
TokenExpiry(remember_me) ==
    IF remember_me THEN timedelta(Days(REMEMBER_ME_DAYS)) ELSE NoDelta

----------------------------------------------------------------------------
(* Requests in flight *)

\* db.add(row): the row the session will insert at its next commit
NothingAdded == [table |-> "none", row |-> NoRow]
Added(table, row) == [table |-> table, row |-> row]

\* a request whose handler has read all it needs from its parameters
NoArgs == <<>>

\* the coroutine of a request suspended at the awaited call `pc`, with the
\* parameters it was called with and the state of its session: the user row as
\* loaded (or as last committed by this session), the user object as the
\* handler has assigned to it since (NoRow once deleted), the row added, and
\* the response the handler is going to give
Request(pc, op, args, user_id, loaded, user, added, out) ==
    [pc |-> pc, op |-> op, args |-> args, user_id |-> user_id, loaded |-> loaded,
     user |-> user, added |-> added, out |-> out]

\* a connection that has carried no request yet
Idle == Request("idle", "none", NoArgs, NoUser, NoRow, NoRow, NothingAdded, NoResponse)

\* a connection whose request has been answered
Done(response) ==
    Request("done", response.op, NoArgs, NoUser, NoRow, NoRow, NothingAdded, response)

\* the connection can carry a new request
Free(r) == reqs[r].pc \in {"idle", "done"}

\* the handler returns or raises: the caller gets the response
Respond(r, response) ==
    /\ resp' = response
    /\ reqs' = [reqs EXCEPT ![r] = Done(response)]

\* the handler reaches an awaited call and its coroutine is suspended there
Await(r, request) ==
    /\ reqs' = [reqs EXCEPT ![r] = request]
    /\ UNCHANGED resp

\* the request has been called with its parameters and awaits its first
\* database call
Called(pc, op, args) ==
    Request(pc, op, args, NoUser, NoRow, NoRow, NothingAdded, NoResponse)

\* the UPDATE a flush emits for a row: it sets the columns whose attribute was
\* assigned a value other than the one loaded, and leaves the other columns
FlushRow(row, loaded, user) ==
    [c \in DOMAIN row |-> IF user[c] # loaded[c] THEN user[c] ELSE row[c]]

\* the users table after the statement the session of a request flushes: the
\* DELETE of an object deleted, the INSERT of an object added, the UPDATE of
\* an object changed
Flush(table, q) ==
    IF q.user_id \notin UserIds \/ q.user = q.loaded THEN table
    ELSE IF q.user = NoRow THEN [table EXCEPT ![q.user_id] = NoRow]
    ELSE IF q.loaded = NoRow THEN [table EXCEPT ![q.user_id] = q.user]
    ELSE IF table[q.user_id] = NoRow THEN table
    ELSE [table EXCEPT ![q.user_id] = FlushRow(@, q.loaded, q.user)]

\* the flush breaks UNIQUE(username) or UNIQUE(email) of the users table
Duplicate(q) ==
    LET after == Flush(users, q)
        id == q.user_id
    IN /\ id \in UserIds
       /\ after[id] # NoRow
       /\ after[id] # users[id]
       /\ \E u \in UserIds \ {id} :
             /\ after[u] # NoRow
             /\ \/ after[u].username = after[id].username
                \/ after[u].email = after[id].email

\* the session deletes its user: db.delete(user)
Deletes(q) == q.user_id \in UserIds /\ q.loaded # NoRow /\ q.user = NoRow

\* the flush of a session raises: StaleDataError when its UPDATE matches no
\* row, IntegrityError when a unique constraint or a foreign key is broken
\* (audit_logs.user_id and security_events.user_id refer to users.id; User has
\* no relationship to its security events, so they are left as they are when
\* the user is deleted)
FlushFails(q) ==
    \/ /\ q.user_id \in UserIds
       /\ q.loaded # NoRow /\ q.user # NoRow /\ q.user # q.loaded
       /\ users[q.user_id] = NoRow
    \/ Duplicate(q)
    \/ /\ q.added # NothingAdded
       /\ q.added.row.user_id # NULL
       /\ Row(q.added.row.user_id) = NoRow
    \/ /\ Deletes(q)
       /\ users[q.user_id] # NoRow
       /\ \E e \in BagToSet(security_events) : e.user_id = q.user_id

\* User.audit_logs = relationship("AuditLog", back_populates="user"): when the
\* user is deleted the flush sets user_id of its audit rows to NULL
Orphaned(table, id) ==
    BagOfAll(LAMBDA row : IF row.user_id = id THEN [row EXCEPT !.user_id = NULL]
                          ELSE row,
             table)

\* await db.commit() in the session of connection r takes effect: the
\* statements on the users table and the INSERT of the row added, in one
\* transaction
Commit(r) ==
    LET q == reqs[r]
        kept == IF Deletes(q) THEN Orphaned(audit_logs, q.user_id) ELSE audit_logs
    IN /\ users' = Flush(users, q)
       /\ security_events' =
             IF q.added.table = "security_events"
             THEN log_security_event(security_events, q.added.row.event_type,
                                     q.added.row.severity, q.added.row.user_id)
             ELSE security_events
       /\ audit_logs' =
             IF q.added.table = "audit_logs"
             THEN log_audit_event(kept, q.added.row.user_id,
                                  q.added.row.action, q.added.row.resource)
             ELSE kept

\* the commit raises: nothing is written, the exception leaves the handler,
\* get_db rolls the session back and the application answers 500
Rollback(r) ==
    /\ Respond(r, ServerError(reqs[r].out.op))
    /\ UNCHANGED <<users, security_events, audit_logs>>

\* the last awaited call of a handler: the commit takes effect and the handler
\* answers
CommitAndRespond(r) ==
    /\ IF FlushFails(reqs[r])
         THEN Rollback(r)
         ELSE Commit(r) /\ Respond(r, reqs[r].out)
    /\ UNCHANGED <<users_id_seq, now, tz, hits, arg>>

----------------------------------------------------------------------------
(* POST /login *)

\* faulty variant: the rejection tells an unknown user from a wrong password
LoginFailed_Reveals(r, uid) ==
    Await(r, Request("log_failed", "login", NoArgs, uid, Row(uid), Row(uid),
                     Added("security_events",
                           SecurityEvent("login_failed", "medium",
                                         IF uid # NoUser THEN uid ELSE NULL)),
                     Message("login", 401,
                             IF uid # NoUser THEN "Incorrect password"
                             ELSE "Unknown user")))

\* faulty variant: the event of a failed login never names the user
LoginFailed_Anonymous(r, uid) ==
    Await(r, Request("log_failed", "login", NoArgs, uid, Row(uid), Row(uid),
                     Added("security_events",
                           SecurityEvent("login_failed", "medium", NULL)),
                     Message("login", 401, "Incorrect username or password")))

\* no user, or the password does not verify: the handler awaits
\* log_security_event("login_failed")
LoginFailed(r, uid) ==
    Await(r, Request("log_failed", "login", NoArgs, uid, Row(uid), Row(uid),
                     Added("security_events",
                           SecurityEvent("login_failed", "medium",
                                         IF uid # NoUser THEN uid ELSE NULL)),
                     Message("login", 401, "Incorrect username or password")))

\* faulty variant: a blocked attempt counts as a failure
LoginBlocked_Counts(r, uid, detail, until) ==
    Await(r, Request("log_blocked", "login", NoArgs, uid, Row(uid),
                     RecordFailure(Row(uid), now),
                     Added("security_events",
                           SecurityEvent("login_blocked", "medium", uid)),
                     [Message("login", 401, detail) EXCEPT !.until = until]))

\* the account is inactive or locked: the handler awaits
\* log_security_event("login_blocked")
LoginBlocked(r, uid, detail, until) ==
    Await(r, Request("log_blocked", "login", NoArgs, uid, Row(uid), Row(uid),
                     Added("security_events",
                           SecurityEvent("login_blocked", "medium", uid)),
                     [Message("login", 401, detail) EXCEPT !.until = until]))

\* faulty variant: a missing code is logged like a wrong one
LoginTotpMissing_Logged(r, uid) ==
    Await(r, Request("log_totp", "login", NoArgs, uid, Row(uid), Row(uid),
                     Added("security_events",
                           SecurityEvent("2fa_failed", "high", uid)),
                     Message("login", 400, "TOTP code required for 2FA")))

\* 2FA is enabled and the request carries no code: raised without a log row
LoginTotpMissing(r, uid) ==
    Respond(r, Message("login", 400, "TOTP code required for 2FA"))

\* faulty variant: a wrong code counts as a failed login
LoginTotpFailed_Counts(r, uid) ==
    Await(r, Request("log_totp", "login", NoArgs, uid, Row(uid),
                     RecordFailure(Row(uid), now),
                     Added("security_events",
                           SecurityEvent("2fa_failed", "high", uid)),
                     Message("login", 401, "Invalid TOTP code")))

\* the code does not verify: the handler awaits log_security_event("2fa_failed")
LoginTotpFailed(r, uid) ==
    Await(r, Request("log_totp", "login", NoArgs, uid, Row(uid), Row(uid),
                     Added("security_events",
                           SecurityEvent("2fa_failed", "high", uid)),
                     Message("login", 401, "Invalid TOTP code")))

\* faulty variant: expires_in follows the lifetime of the token issued
LoginSucceeded_ReportsLifetime(r, uid, remember_me) ==
    LET user == RecordSuccess(Row(uid), now)
    IN Await(r, Request("commit_login", "login", NoArgs, uid, Row(uid), user,
                        NothingAdded,
                        Token("login",
                              create_access_token(uid, TokenExpiry(remember_me), now),
                              create_refresh_token(uid, now),
                              IF remember_me THEN Days(REMEMBER_ME_DAYS)
                              ELSE Minutes(ACCESS_TOKEN_EXPIRE_MINUTES),
                              UserProfile(uid, user))))

\* every check passed: the handler resets the lockout fields of its user
\* object, creates the tokens and awaits db.commit(); the profile it returns
\* in the end is built from the same object
LoginSucceeded(r, uid, remember_me) ==
    LET user == RecordSuccess(Row(uid), now)
    IN Await(r, Request("commit_login", "login", NoArgs, uid, Row(uid), user,
                        NothingAdded,
                        Token("login",
                              create_access_token(uid, TokenExpiry(remember_me), now),
                              create_refresh_token(uid, now),
                              Minutes(ACCESS_TOKEN_EXPIRE_MINUTES),
                              UserProfile(uid, user))))

\* @limiter.limit("5/minute"): the request is one too many for the window
LoginThrottled(r) ==
    Respond(r, Message("login", 429, "Rate limit exceeded: 5 per 1 minute"))

\* Field(..., min_length=1) of a str field: the error, or "ok"
NotEmpty(v) ==
    IF Len(v) < 1 THEN "ensure this value has at least 1 characters" ELSE "ok"

\* POST /login arrives from the one client address of the model: the body is
\* validated (UserLogin.password has min_length=1; a code is a string of six
\* digits), then the limiter counts the request before the handler runs (a
\* count over the limit is kept at it), and the handler awaits its select
Login(r, username, password, remember_me, totp_code) ==
    /\ Free(r)
    /\ IF NotEmpty(password) # "ok"
         THEN /\ Respond(r, Invalid("login", << <<"password", NotEmpty(password)>> >>))
              /\ UNCHANGED hits
         ELSE /\ hits' = IF hits < RATE_LIMIT THEN hits + 1 ELSE hits
              /\ IF hits >= RATE_LIMIT
                   THEN LoginThrottled(r)
                   ELSE Await(r, Called("select", "login",
                                        [username |-> username, password |-> password,
                                         remember_me |-> remember_me,
                                         totp_code |-> totp_code]))
    /\ UNCHANGED <<users, users_id_seq, security_events, audit_logs, now, tz, arg>>

\* the select of the login takes effect: scalar_one_or_none() raises when two
\* rows match, and the checks on the row loaded decide which call is awaited
\* next. Verifying a code against a null secret raises inside pyotp.
LoginSelect(r) ==
    LET a == reqs[r].args
        uid == FindByUsernameOrEmail(a.username)
    IN /\ reqs[r].pc = "select"
       /\ reqs[r].op = "login"
       /\ IF Cardinality(Matching(a.username, a.username)) > 1
            THEN Respond(r, ServerError("login"))
          ELSE IF uid = NoUser \/ ~verify_password(a.password, users[uid].hashed_password)
            THEN LoginFailed(r, uid)
          ELSE IF ~users[uid].is_active
            THEN LoginBlocked(r, uid, "Account is inactive", NULL)
          ELSE IF IsLocked(users[uid], now)
            THEN LoginBlocked(r, uid, "Account is locked until",
                              users[uid].locked_until)
          ELSE IF users[uid].is_2fa_enabled /\ a.totp_code = NoCode
            THEN LoginTotpMissing(r, uid)
          ELSE IF users[uid].is_2fa_enabled /\ users[uid].totp_secret = NULL
            THEN Respond(r, ServerError("login"))
          ELSE IF users[uid].is_2fa_enabled
                  /\ ~verify_totp_token(users[uid].totp_secret, a.totp_code, now)
            THEN LoginTotpFailed(r, uid)
          ELSE LoginSucceeded(r, uid, a.remember_me)
       /\ UNCHANGED <<users, users_id_seq, security_events, audit_logs, now, tz,
                      hits, arg>>

\* the commit of log_security_event("login_failed") takes effect; for an
\* existing user the handler then counts the failure on its user object, locks
\* at the threshold and awaits db.commit()
LoginLogFailed(r) ==
    /\ reqs[r].pc = "log_failed"
    /\ IF FlushFails(reqs[r])
         THEN Rollback(r)
       ELSE IF reqs[r].user_id = NoUser
         THEN Commit(r) /\ Respond(r, reqs[r].out)
       ELSE /\ Commit(r)
            /\ Await(r, [reqs[r] EXCEPT !.pc = "commit_failed",
                                        !.loaded = reqs[r].user,
                                        !.user = RecordFailure(reqs[r].user, now),
                                        !.added = NothingAdded])
    /\ UNCHANGED <<users_id_seq, now, tz, hits, arg>>

\* the commit of the counted failure takes effect and the handler raises 401
LoginCommitFailed(r) ==
    /\ reqs[r].pc = "commit_failed"
    /\ CommitAndRespond(r)

\* faulty variant: the rejection is returned without the row being committed
LoginLogBlocked_NotCommitted(r) ==
    /\ reqs[r].pc = "log_blocked"
    /\ Respond(r, reqs[r].out)
    /\ UNCHANGED <<users, users_id_seq, security_events, audit_logs, now, tz,
                   hits, arg>>

\* the commit of log_security_event("login_blocked") takes effect and the
\* handler raises 401
LoginLogBlocked(r) ==
    /\ reqs[r].pc = "log_blocked"
    /\ CommitAndRespond(r)

\* the commit of log_security_event("2fa_failed") takes effect and the handler
\* raises 401
LoginLogTotpFailed(r) ==
    /\ reqs[r].pc = "log_totp"
    /\ CommitAndRespond(r)

\* the commit of the successful login takes effect; the handler awaits
\* log_audit_event("LOGIN")
LoginCommit(r) ==
    /\ reqs[r].pc = "commit_login"
    /\ IF FlushFails(reqs[r])
         THEN Rollback(r)
         ELSE /\ Commit(r)
              /\ Await(r, [reqs[r] EXCEPT
                             !.pc = "log_login",
                             !.loaded = reqs[r].user,
                             !.added = Added("audit_logs",
                                             AuditLog(reqs[r].user_id, "LOGIN", "auth"))])
    /\ UNCHANGED <<users_id_seq, now, tz, hits, arg>>

\* the commit of log_audit_event("LOGIN") takes effect and the handler returns
\* the tokens and the profile
LoginLogSuccess(r) ==
    /\ reqs[r].pc = "log_login"
    /\ CommitAndRespond(r)

\* the commit awaited by log_security_event or log_audit_event fails (the
\* database refuses the write). On the rejecting paths it is the first commit
\* of the request, so nothing is written; on the successful path the row of
\* the user is committed before log_audit_event is awaited.
LoginLogWriteFails(r) ==
    /\ reqs[r].pc \in {"log_failed", "log_blocked", "log_totp", "log_login"}
    /\ Respond(r, ServerError("login"))
    /\ UNCHANGED <<users, users_id_seq, security_events, audit_logs, now, tz,
                   hits, arg>>

----------------------------------------------------------------------------
(* Requests authenticated by a token *)

\* get_current_user_token: Depends(security) -> verify_token(token, "access")
\* faulty variant: the dependency also loads the user and wants it active
get_current_user_token_ChecksActive(token) ==
    LET user_id == verify_token(token, "access", now, tz)
    IN IF user_id # None /\ Row(IntOf(user_id)) # NoRow
          /\ ~users[IntOf(user_id)].is_active
       THEN None
       ELSE user_id

get_current_user_token(token) == verify_token(token, "access", now, tz)

Unauthorized(op) == Message(op, 401, "Invalid authentication credentials")

\* a request whose only parameter is the bearer token arrives: the dependency
\* verifies the token and the handler awaits db.get(User, int(user_id))
Authenticate(r, op, token, args) ==
    LET user_id == get_current_user_token(token)
    IN /\ Free(r)
       /\ IF user_id = None
            THEN Respond(r, Unauthorized(op))
            ELSE Await(r, Called("get", op, [user_id |-> user_id] @@ args))
       /\ UNCHANGED <<users, users_id_seq, security_events, audit_logs, now, tz,
                      hits, arg>>

\* the get (or select) of a handler that writes nothing at this step
Reads(r, pc, op) ==
    /\ reqs[r].pc = pc
    /\ reqs[r].op = op
    /\ UNCHANGED <<users, users_id_seq, security_events, audit_logs, now, tz,
                   hits, arg>>

\* the request with the user loaded and changed, suspended at its commit
AtCommit(r, user_id, user, out) ==
    Request("commit", reqs[r].op, NoArgs, user_id, Row(user_id), user,
            NothingAdded, out)

\* POST /refresh arrives: verify_token reads the clock, and the handler awaits
\* db.get(User, int(user_id))
Refresh(r, token) ==
    LET user_id == verify_token(token, "refresh", now, tz)
    IN /\ Free(r)
       /\ IF user_id = None
            THEN Respond(r, Message("refresh", 401, "Invalid refresh token"))
            ELSE Await(r, Called("get", "refresh", [user_id |-> user_id]))
       /\ UNCHANGED <<users, users_id_seq, security_events, audit_logs, now, tz,
                      hits, arg>>

\* faulty variant: the subject's is_active is not looked at
RefreshGet_IgnoresInactive(r) ==
    LET id == IntOf(reqs[r].args.user_id)
    IN /\ Reads(r, "get", "refresh")
       /\ IF Row(id) = NoRow
            THEN Respond(r, Message("refresh", 401, "User not found or inactive"))
            ELSE Respond(r, Token("refresh",
                                  create_access_token(id, NoDelta, now),
                                  create_refresh_token(id, now),
                                  Minutes(ACCESS_TOKEN_EXPIRE_MINUTES),
                                  UserProfile(id, users[id])))

\* the get of the refresh takes effect: the handler checks the row, creates
\* the new tokens and returns; it writes nothing
RefreshGet(r) ==
    LET id == IntOf(reqs[r].args.user_id)
    IN /\ Reads(r, "get", "refresh")
       /\ IF Row(id) = NoRow \/ ~users[id].is_active
            THEN Respond(r, Message("refresh", 401, "User not found or inactive"))
            ELSE Respond(r, Token("refresh",
                                  create_access_token(id, NoDelta, now),
                                  create_refresh_token(id, now),
                                  Minutes(ACCESS_TOKEN_EXPIRE_MINUTES),
                                  UserProfile(id, users[id])))

\* POST /logout arrives: the handler awaits log_audit_event("LOGOUT"), the
\* only awaited call
Logout(r, token) ==
    LET user_id == get_current_user_token(token)
    IN /\ Free(r)
       /\ IF user_id = None
            THEN Respond(r, Unauthorized("logout"))
            ELSE Await(r, Request("log", "logout", NoArgs, NoUser, NoRow, NoRow,
                                  Added("audit_logs",
                                        AuditLog(IntOf(user_id), "LOGOUT", "auth")),
                                  Message("logout", 200, "Successfully logged out")))
       /\ UNCHANGED <<users, users_id_seq, security_events, audit_logs, now, tz,
                      hits, arg>>

\* the commit of log_audit_event("LOGOUT") takes effect and the handler returns
LogoutLog(r) ==
    /\ reqs[r].pc = "log"
    /\ reqs[r].op = "logout"
    /\ CommitAndRespond(r)

----------------------------------------------------------------------------
(* Password change *)

PASSWORD_MIN_LENGTH == 8
PASSWORD_MAX_LENGTH == 100

\* Field(..., min_length=8, max_length=100) of a str field: the error, or "ok"
PasswordLength(v) ==
    IF Len(v) < PASSWORD_MIN_LENGTH
      THEN "ensure this value has at least 8 characters"
    ELSE IF Len(v) > PASSWORD_MAX_LENGTH
      THEN "ensure this value has at most 100 characters"
    ELSE "ok"

\* the validator of ChangePassword.new_password and of UserCreate.password:
\* the first rule broken, or "ok"
validate_password(v) ==
    IF Len(v) < 8
      THEN "Password must be at least 8 characters long"
    ELSE IF ~\E i \in 1..Len(v) : v[i] \in UpperChars
      THEN "Password must contain at least one uppercase letter"
    ELSE IF ~\E i \in 1..Len(v) : v[i] \in LowerChars
      THEN "Password must contain at least one lowercase letter"
    ELSE IF ~\E i \in 1..Len(v) : v[i] \in DigitChars
      THEN "Password must contain at least one digit"
    ELSE "ok"

\* the validator of confirm_password; values holds the fields validated before
\* it that are valid, under the name given
passwords_match(v, values, name) ==
    IF name \in DOMAIN values /\ v # values[name]
    THEN "Passwords do not match" ELSE "ok"

\* the errors of a password and its confirmation, fields `name` and
\* confirm_password: the constraints of a field come before its validator, and
\* a field that fails is not among the values of the validators after it
PasswordErrors(name, password, confirm_password) ==
    LET first == IF PasswordLength(password) # "ok" THEN PasswordLength(password)
                 ELSE validate_password(password)
        values == IF first = "ok" THEN (name :> password) ELSE <<>>
        second == IF PasswordLength(confirm_password) # "ok"
                  THEN PasswordLength(confirm_password)
                  ELSE passwords_match(confirm_password, values, name)
    IN (IF first # "ok" THEN << <<name, first>> >> ELSE <<>>)
       \o (IF second # "ok" THEN << <<"confirm_password", second>> >> ELSE <<>>)

\* the errors of a ChangePassword body, in the order of its fields
ChangePasswordErrors(current_password, new_password, confirm_password) ==
    (IF NotEmpty(current_password) # "ok"
     THEN << <<"current_password", NotEmpty(current_password)>> >> ELSE <<>>)
    \o PasswordErrors("new_password", new_password, confirm_password)

\* faulty variant: a password change also clears the lockout state
change_password_ClearsLockout(user, new_password, salt, t) ==
    [user EXCEPT !.hashed_password = get_password_hash(new_password, salt),
                 !.password_changed_at = t,
                 !.failed_login_attempts = 0,
                 !.locked_until = NULL]

\* UserService.change_password: its self.get returns the object the handler
\* has loaded into the session; salt is the value get_password_hash draws
change_password(user, new_password, salt, t) ==
    [user EXCEPT !.hashed_password = get_password_hash(new_password, salt),
                 !.password_changed_at = t]

\* the two routes of the password change
Routes == {"auth", "users"}

\* POST /auth/change-password and POST /users/change-password arrive: the
\* dependency verifies the token, then the body is validated, and the handler
\* awaits its get
ChangePassword(r, route, token, current_password, new_password, confirm_password) ==
    LET user_id == get_current_user_token(token)
        errors == ChangePasswordErrors(current_password, new_password,
                                       confirm_password)
    IN /\ Free(r)
       /\ IF user_id = None
            THEN Respond(r, Unauthorized("change_password"))
          ELSE IF errors # <<>>
            THEN Respond(r, Invalid("change_password", errors))
          ELSE Await(r, Called("get",
                               IF route = "auth" THEN "change_password"
                               ELSE "change_user_password",
                               [user_id |-> user_id,
                                current_password |-> current_password,
                                new_password |-> new_password]))
       /\ UNCHANGED <<users, users_id_seq, security_events, audit_logs, now, tz,
                      hits, arg>>

\* the get of the password change takes effect: the current password is
\* verified against the row loaded, and UserService.change_password assigns
\* the new hash and the time of the change and awaits db.commit(). On the
\* users route change_password cannot return False, the user being in the
\* session. salt is the value the hashing draws.
ChangePasswordGet(r, salt) ==
    LET a == reqs[r].args
        id == IntOf(a.user_id)
    IN /\ reqs[r].pc = "get"
       /\ reqs[r].op \in {"change_password", "change_user_password"}
       /\ IF Row(id) = NoRow
            THEN Respond(r, Message("change_password", 404, "User not found"))
          ELSE IF ~verify_password(a.current_password, users[id].hashed_password)
            THEN Respond(r, Message("change_password", 400,
                                    "Current password is incorrect"))
          ELSE Await(r, AtCommit(r, id, change_password(users[id], a.new_password, salt, now),
                                Message("change_password", 200,
                                        "Password changed successfully")))
       /\ UNCHANGED <<users, users_id_seq, security_events, audit_logs, now, tz,
                      hits, arg>>

\* the commit of the new password takes effect and the handler returns
ChangePasswordCommit(r) ==
    /\ reqs[r].pc = "commit"
    /\ reqs[r].op \in {"change_password", "change_user_password"}
    /\ CommitAndRespond(r)

----------------------------------------------------------------------------
(* Two-factor authentication *)

\* a setup that would switch 2FA on without a verified code
StoreSecret_Enables(user, secret) ==
    [user EXCEPT !.totp_secret = secret, !.is_2fa_enabled = TRUE]

\* user.totp_secret = secret (2FA is not enabled yet)
StoreSecret(user, secret) == [user EXCEPT !.totp_secret = secret]

\* user.is_2fa_enabled = True
Enable2fa(user) == [user EXCEPT !.is_2fa_enabled = TRUE]

\* a disable that would drop the secret and leave the flag set
Clear2fa_KeepsFlag(user) ==
    [user EXCEPT !.totp_secret = NULL, !.backup_codes = NULL]

\* a disable that would clear the flag and leave the secret stored
Clear2fa_KeepsSecret(user) ==
    [user EXCEPT !.is_2fa_enabled = FALSE, !.backup_codes = NULL]

\* user.is_2fa_enabled = False; user.totp_secret = None; user.backup_codes = None
Clear2fa(user) ==
    [user EXCEPT !.is_2fa_enabled = FALSE,
                 !.totp_secret = NULL,
                 !.backup_codes = NULL]

\* POST /2fa/setup arrives
Setup2fa(r, token, password) ==
    Authenticate(r, "setup_2fa", token, [password |-> password])

\* the get of the setup takes effect: the password is verified against the
\* row loaded, the secret is generated and assigned, and the handler awaits
\* db.commit(); secret is the value generate_totp_secret() draws
Setup2faGet(r, secret) ==
    LET a == reqs[r].args
        id == IntOf(a.user_id)
    IN /\ Reads(r, "get", "setup_2fa")
       /\ IF Row(id) = NoRow
            THEN Respond(r, Message("setup_2fa", 404, "User not found"))
          ELSE IF ~verify_password(a.password, users[id].hashed_password)
            THEN Respond(r, Message("setup_2fa", 400, "Password is incorrect"))
          ELSE Await(r, AtCommit(r, id, StoreSecret(users[id], secret),
                                [Message("setup_2fa", 200, "") EXCEPT
                                    !.secret = secret, !.backup_codes = 10]))

\* the commit of the secret takes effect and the handler returns it
Setup2faCommit(r) ==
    /\ reqs[r].pc = "commit"
    /\ reqs[r].op = "setup_2fa"
    /\ CommitAndRespond(r)

\* POST /2fa/verify arrives
Verify2faSetup(r, token, totp_code) ==
    Authenticate(r, "verify_2fa_setup", token, [totp_code |-> totp_code])

\* the get of the verification takes effect: the code is verified against the
\* secret of the row loaded, at the time of this step
Verify2faGet(r) ==
    LET a == reqs[r].args
        id == IntOf(a.user_id)
    IN /\ Reads(r, "get", "verify_2fa_setup")
       /\ IF Row(id) = NoRow \/ users[id].totp_secret = NULL
            THEN Respond(r, Message("verify_2fa_setup", 400,
                                    "2FA setup not initiated"))
          ELSE IF ~verify_totp_token(users[id].totp_secret, a.totp_code, now)
            THEN Respond(r, Message("verify_2fa_setup", 400, "Invalid TOTP code"))
          ELSE Await(r, AtCommit(r, id, Enable2fa(users[id]),
                                Message("verify_2fa_setup", 200,
                                        "2FA enabled successfully")))

\* the commit of the flag takes effect and the handler returns
Verify2faCommit(r) ==
    /\ reqs[r].pc = "commit"
    /\ reqs[r].op = "verify_2fa_setup"
    /\ CommitAndRespond(r)

\* POST /2fa/disable arrives
Disable2fa(r, token, password, totp_code) ==
    Authenticate(r, "disable_2fa", token,
                 [password |-> password, totp_code |-> totp_code])

\* the get of the disable takes effect; verifying a code against a null secret
\* raises inside pyotp, which the application answers with 500
Disable2faGet(r) ==
    LET a == reqs[r].args
        id == IntOf(a.user_id)
    IN /\ Reads(r, "get", "disable_2fa")
       /\ IF Row(id) = NoRow
            THEN Respond(r, Message("disable_2fa", 404, "User not found"))
          ELSE IF ~verify_password(a.password, users[id].hashed_password)
            THEN Respond(r, Message("disable_2fa", 400, "Password is incorrect"))
          ELSE IF users[id].totp_secret = NULL
            THEN Respond(r, ServerError("disable_2fa"))
          ELSE IF ~verify_totp_token(users[id].totp_secret, a.totp_code, now)
            THEN Respond(r, Message("disable_2fa", 400, "Invalid TOTP code"))
          ELSE Await(r, AtCommit(r, id, Clear2fa(users[id]),
                                Message("disable_2fa", 200,
                                        "2FA disabled successfully")))

\* the commit of the cleared fields takes effect and the handler returns
Disable2faCommit(r) ==
    /\ reqs[r].pc = "commit"
    /\ reqs[r].op = "disable_2fa"
    /\ CommitAndRespond(r)

----------------------------------------------------------------------------
(* User management: /users *)

\* setattr(user, field, value) for the items of a dict, on the columns of the
\* model
Assigned(user, data) ==
    [c \in DOMAIN user |-> IF c \in DOMAIN data THEN data[c] ELSE user[c]]

\* POST /users/{user_id}/activate arrives
ActivateUser(r, token, user_id) ==
    Authenticate(r, "activate_user", token, [target |-> user_id])

\* UserService.activate_user after its get: user.is_active = True
ActivateUserGet(r) ==
    LET id == reqs[r].args.target
    IN /\ Reads(r, "get", "activate_user")
       /\ IF Row(id) = NoRow
            THEN Respond(r, Message("activate_user", 404, "User not found"))
            ELSE Await(r, AtCommit(r, id, [users[id] EXCEPT !.is_active = TRUE],
                                  Message("activate_user", 200,
                                          "User activated successfully")))

\* POST /users/{user_id}/deactivate arrives: the caller cannot deactivate
\* the account of its own token
DeactivateUser(r, token, user_id) ==
    LET current_user_id == get_current_user_token(token)
    IN /\ Free(r)
       /\ IF current_user_id = None
            THEN Respond(r, Unauthorized("deactivate_user"))
          ELSE IF IntOf(current_user_id) = user_id
            THEN Respond(r, Message("deactivate_user", 400,
                                    "Cannot deactivate your own account"))
          ELSE Await(r, Called("get", "deactivate_user", [target |-> user_id]))
       /\ UNCHANGED <<users, users_id_seq, security_events, audit_logs, now, tz,
                      hits, arg>>

\* UserService.deactivate_user after its get: user.is_active = False
DeactivateUserGet(r) ==
    LET id == reqs[r].args.target
    IN /\ Reads(r, "get", "deactivate_user")
       /\ IF Row(id) = NoRow
            THEN Respond(r, Message("deactivate_user", 404, "User not found"))
            ELSE Await(r, AtCommit(r, id, [users[id] EXCEPT !.is_active = FALSE],
                                  Message("deactivate_user", 200,
                                          "User deactivated successfully")))

\* DELETE /users/{user_id} arrives: the caller cannot delete the account of
\* its own token
DeleteUser(r, token, user_id) ==
    LET current_user_id == get_current_user_token(token)
    IN /\ Free(r)
       /\ IF current_user_id = None
            THEN Respond(r, Unauthorized("delete_user"))
          ELSE IF IntOf(current_user_id) = user_id
            THEN Respond(r, Message("delete_user", 400,
                                    "Cannot delete your own account"))
          ELSE Await(r, Called("get", "delete_user", [target |-> user_id]))
       /\ UNCHANGED <<users, users_id_seq, security_events, audit_logs, now, tz,
                      hits, arg>>

\* BaseService.delete after its get: db.delete(user) marks the object, and the
\* handler awaits db.commit()
DeleteUserGet(r) ==
    LET id == reqs[r].args.target
    IN /\ Reads(r, "get", "delete_user")
       /\ IF Row(id) = NoRow
            THEN Respond(r, Message("delete_user", 404, "User not found"))
            ELSE Await(r, AtCommit(r, id, NoRow,
                                  Message("delete_user", 200,
                                          "User deleted successfully")))

\* the commit of activate_user, deactivate_user or delete takes effect and the
\* handler returns
ManageUserCommit(r) ==
    /\ reqs[r].pc = "commit"
    /\ reqs[r].op \in {"activate_user", "deactivate_user", "delete_user"}
    /\ CommitAndRespond(r)

\* the two routes of the update
UpdateRoutes == {"me", "id"}

\* PUT /users/me and PUT /users/{user_id} arrive; user_update holds the fields
\* the body sets (exclude_unset), all of them valid
UpdateUser(r, route, token, user_id, user_update) ==
    LET current_user_id == get_current_user_token(token)
    IN /\ Free(r)
       /\ IF current_user_id = None
            THEN Respond(r, Unauthorized("update_user"))
            ELSE Await(r, Called("get",
                                 IF route = "me" THEN "update_current_user"
                                 ELSE "update_user",
                                 [target |-> IF route = "me" THEN IntOf(current_user_id)
                                             ELSE user_id,
                                  user_update |-> user_update]))
       /\ UNCHANGED <<users, users_id_seq, security_events, audit_logs, now, tz,
                      hits, arg>>

\* UserService.update_user after its get: the fields are assigned and the
\* handler awaits db.commit(); no roles are given
UpdateUserGet(r) ==
    LET a == reqs[r].args
        id == a.target
    IN /\ reqs[r].pc = "get"
       /\ reqs[r].op \in {"update_current_user", "update_user"}
       /\ IF Row(id) = NoRow
            THEN Respond(r, Message("update_user", 404, "User not found"))
            ELSE Await(r, AtCommit(r, id, Assigned(users[id], a.user_update),
                                  Message("update_user", 200, "")))
       /\ UNCHANGED <<users, users_id_seq, security_events, audit_logs, now, tz,
                      hits, arg>>

\* the commit of a created or updated user takes effect and the service
\* awaits db.refresh(user)
SaveUserCommit(r) ==
    /\ reqs[r].pc = "commit"
    /\ reqs[r].op \in {"update_current_user", "update_user", "create_user"}
    /\ IF FlushFails(reqs[r])
         THEN Rollback(r)
         ELSE /\ Commit(r)
              /\ Await(r, [reqs[r] EXCEPT !.pc = "refresh",
                                          !.loaded = reqs[r].user])
    /\ UNCHANGED <<users_id_seq, now, tz, hits, arg>>

\* db.refresh(user) takes effect: it raises when the row is gone. PUT /users/me
\* returns the profile of the row read; PUT /users/{user_id} and POST /users/
\* end in UserResponse.from_orm(user), which raises (the schema does not set
\* orm_mode), so they answer 500 after their commit
SaveUserRefresh(r) ==
    LET id == reqs[r].user_id
    IN /\ reqs[r].pc = "refresh"
       /\ IF Row(id) = NoRow \/ reqs[r].op # "update_current_user"
            THEN Respond(r, ServerError(reqs[r].out.op))
            ELSE Respond(r, [reqs[r].out EXCEPT !.user = UserProfile(id, users[id])])
       /\ UNCHANGED <<users, users_id_seq, security_events, audit_logs, now, tz,
                      hits, arg>>

\* allowed_fields of POST /users/bulk/update
AllowedFields == {"is_active", "language", "timezone"}

\* UserService.bulk_update_users on the rows selected: every field given is
\* assigned to every user
bulk_update_users(rows, update_data) ==
    [u \in DOMAIN rows |-> Assigned(rows[u], update_data)]

\* POST /users/bulk/update arrives: the fields not allowed are dropped
BulkUpdate(r, token, user_ids, update_data) ==
    LET current_user_id == get_current_user_token(token)
        filtered_data == [k \in DOMAIN update_data \cap AllowedFields |->
                             update_data[k]]
    IN /\ Free(r)
       /\ IF current_user_id = None
            THEN Respond(r, Unauthorized("bulk_update_users"))
          ELSE IF DOMAIN filtered_data = {}
            THEN Respond(r, Message("bulk_update_users", 400,
                                    "No valid fields to update"))
          ELSE Await(r, Called("select", "bulk_update_users",
                               [user_ids |-> user_ids,
                                update_data |-> filtered_data]))
       /\ UNCHANGED <<users, users_id_seq, security_events, audit_logs, now, tz,
                      hits, arg>>

\* the select of the bulk update takes effect: the rows with these ids are
\* loaded and assigned to, and the service awaits db.commit(); loaded and user
\* hold the rows by id
BulkUpdateSelect(r) ==
    LET a == reqs[r].args
        rows == [u \in a.user_ids \cap Rows |-> users[u]]
    IN /\ Reads(r, "select", "bulk_update_users")
       /\ Await(r, Request("commit", "bulk_update_users", NoArgs, NoUser, rows,
                           bulk_update_users(rows, a.update_data), NothingAdded,
                           Message("bulk_update_users", 200, "Updated users successfully")))

\* the commit of the bulk update takes effect: one UPDATE for each row changed,
\* StaleDataError when one of them is gone
BulkUpdateCommit(r) ==
    LET q == reqs[r]
        changed == {u \in DOMAIN q.loaded : q.user[u] # q.loaded[u]}
    IN /\ q.pc = "commit"
       /\ q.op = "bulk_update_users"
       /\ IF \E u \in changed : users[u] = NoRow
            THEN /\ Respond(r, ServerError("bulk_update_users"))
                 /\ UNCHANGED users
            ELSE /\ users' = [u \in UserIds |->
                                IF u \in changed
                                THEN FlushRow(users[u], q.loaded[u], q.user[u])
                                ELSE users[u]]
                 /\ Respond(r, q.out)
       /\ UNCHANGED <<users_id_seq, security_events, audit_logs, now, tz, hits, arg>>

\* User(**user_dict): the columns of a new row, with the hash of the password
\* under the salt drawn; the lockout and 2FA columns take their defaults when
\* the row is inserted, password_changed_at the time of the insert
CreatedUser(user_data, salt) ==
    [username |-> user_data.username, email |-> user_data.email,
     hashed_password |-> get_password_hash(user_data.password, salt),
     is_active |-> user_data.is_active,
     totp_secret |-> NULL, is_2fa_enabled |-> FALSE, backup_codes |-> NULL,
     language |-> user_data.language, timezone |-> user_data.timezone,
     last_login |-> NULL, failed_login_attempts |-> 0, locked_until |-> NULL,
     password_changed_at |-> NULL]

\* POST /users/ arrives: the token, then the body (UserCreate.password and
\* confirm_password), and the service awaits its select
CreateUser(r, token, user_data) ==
    LET current_user_id == get_current_user_token(token)
        errors == PasswordErrors("password", user_data.password,
                                 user_data.confirm_password)
    IN /\ Free(r)
       /\ IF current_user_id = None
            THEN Respond(r, Unauthorized("create_user"))
          ELSE IF errors # <<>>
            THEN Respond(r, Invalid("create_user", errors))
          ELSE Await(r, Called("select", "create_user", user_data))
       /\ UNCHANGED <<users, users_id_seq, security_events, audit_logs, now, tz,
                      hits, arg>>

\* the select of get_by_username_or_email takes effect: a row that matches is
\* a ValueError (400), two rows that match raise in scalar_one_or_none();
\* otherwise the password is hashed, with the salt drawn, the user is added
\* and the service awaits db.flush()
CreateUserSelect(r, salt) ==
    LET a == reqs[r].args
        found == Matching(a.username, a.email)
    IN /\ Reads(r, "select", "create_user")
       /\ IF Cardinality(found) > 1
            THEN Respond(r, ServerError("create_user"))
          ELSE IF found # {}
            THEN Respond(r, Message("create_user", 400,
                                    "Username or email already exists"))
          ELSE Await(r, [reqs[r] EXCEPT !.pc = "flush",
                                        !.user = CreatedUser(a, salt)])

\* db.flush() takes effect: the INSERT takes the next id of the sequence (a
\* value taken is not given back) and fails on a duplicate; no roles are
\* given, and the service awaits db.commit()
CreateUserFlush(r) ==
    LET id == users_id_seq + 1
        q == Request("commit", "create_user", NoArgs, id, NoRow,
                     [reqs[r].user EXCEPT !.password_changed_at = now],
                     NothingAdded,
                     Message("create_user", 200, ""))
    IN /\ reqs[r].pc = "flush"
       /\ reqs[r].op = "create_user"
       /\ users_id_seq' = id
       /\ IF Duplicate(q)
            THEN Respond(r, ServerError("create_user"))
            ELSE Await(r, q)
       /\ UNCHANGED <<users, security_events, audit_logs, now, tz, hits, arg>>

----------------------------------------------------------------------------
(* The clock *)

\* faulty variant: a lock that has run out is swept away with its counter
Tick_Sweeps ==
    /\ now' = now + TickSeconds
    /\ hits' = IF TickSeconds >= RATE_WINDOW THEN 0 ELSE hits
    /\ users' = [u \in UserIds |->
                   IF users[u] # NoRow /\ users[u].locked_until # NULL
                      /\ ~(users[u].locked_until > now')
                   THEN [users[u] EXCEPT !.failed_login_attempts = 0,
                                         !.locked_until = NULL]
                   ELSE users[u]]
    /\ UNCHANGED <<users_id_seq, security_events, audit_logs, tz, resp, reqs, arg>>

\* the clock advances
Tick ==
    /\ now' = now + TickSeconds
    /\ hits' = IF TickSeconds >= RATE_WINDOW THEN 0 ELSE hits
    /\ UNCHANGED <<users, users_id_seq, security_events, audit_logs, tz, resp,
                   reqs, arg>>

----------------------------------------------------------------------------
(* Specifications *)

\* server time zones: five hours west of UTC, UTC, one hour east
TzOffsets == {0 - 18000, 0, 3600}

\* a row as account creation leaves it (Column defaults of the User model)
NewUser ==
    [username |-> "alice",
     email |-> "alice@example.com",
     hashed_password |-> get_password_hash(PwInitial, 1),
     is_active |-> TRUE,
     totp_secret |-> NULL,
     is_2fa_enabled |-> FALSE,
     backup_codes |-> NULL,
     language |-> "en",
     timezone |-> "UTC",
     last_login |-> NULL,
     failed_login_attempts |-> 0,
     locked_until |-> NULL,
     password_changed_at |-> 0]

\* the same account after 2FA was set up and verified with the given secret
TwoFactorUser(secret) == Enable2fa(StoreSecret(NewUser, secret))

\* the users table with this row as its only one, which has the id 1
Table(row) == [u \in UserIds |-> IF u = 1 THEN row ELSE NoRow]

\* the part of the state space a specification explores
Within(maxFailed, maxEvents, maxAudit, maxTicks) ==
    /\ \A u \in Rows : users[u].failed_login_attempts <= maxFailed
    /\ BagCardinality(security_events) <= maxEvents
    /\ BagCardinality(audit_logs) <= maxAudit
    /\ now <= maxTicks * TickSeconds

\* codes a client may submit at time t: for each of the secrets, the code of
\* the step `d` steps away for every d in offsets
Codes(secrets, t, offsets) ==
    {TotpAt(s, TimeStep(t) + d) : s \in secrets, d \in offsets}

\* the connection of a scenario whose requests are sent one at a time, each
\* after the response to the one before: the requests of the account's owner
\* and those of an administrator
Connections == [client |-> Idle]

\* a login request arrives on the client's connection
LoginRequest(names, passwords, remembers, codes) ==
    \E username \in names, password \in passwords,
       remember_me \in remembers, totp_code \in codes :
         Login("client", username, password, remember_me, totp_code)

\* the access token of the administrator, another user than the account's
AdminToken == create_access_token(2, timedelta(Days(REMEMBER_ME_DAYS)), 0)

\* a connection that has carried no request yet
Fresh(r) == reqs[r].pc = "idle"

InitOther ==
    /\ users_id_seq = 1
    /\ audit_logs = EmptyBag
    /\ now = 0
    /\ tz = 0
    /\ hits = 0
    /\ resp = NoResponse
    /\ reqs = Connections
    /\ arg = <<>>

(* Lockout: a client logging in to a fresh account with the right or a     *)
(* wrong password, again and again, one request at a time, while the       *)
(* administrator deactivates and reactivates the account and the clock     *)
(* advances between the requests.                                          *)

InitLockout ==
    /\ users = Table(NewUser)
    /\ security_events = EmptyBag
    /\ InitOther

LockoutBounds == Within(MaxFailed, MaxEvents, MaxAudit, MaxTicks)

NextLockout ==
    \/ /\ LoginRequest(LockoutNames, LoginPasswords, {FALSE}, {NoCode})
       /\ LockoutBounds'
    \/ /\ \E r \in DOMAIN reqs : LoginSelect(r)
       /\ LockoutBounds'
    \/ /\ \E r \in DOMAIN reqs : LoginLogFailed(r)
       /\ LockoutBounds'
    \/ /\ \E r \in DOMAIN reqs : LoginCommitFailed(r)
       /\ LockoutBounds'
    \/ /\ \E r \in DOMAIN reqs : LoginLogBlocked(r)
       /\ LockoutBounds'
    \/ /\ \E r \in DOMAIN reqs : LoginCommit(r)
       /\ LockoutBounds'
    \/ /\ \E r \in DOMAIN reqs : LoginLogSuccess(r)
       /\ LockoutBounds'
    \/ /\ ActivateUser("client", AdminToken, 1)
       /\ LockoutBounds'
    \/ /\ \E r \in DOMAIN reqs : ActivateUserGet(r)
       /\ LockoutBounds'
    \/ /\ DeactivateUser("client", AdminToken, 1)
       /\ LockoutBounds'
    \/ /\ \E r \in DOMAIN reqs : DeactivateUserGet(r)
       /\ LockoutBounds'
    \/ /\ \E r \in DOMAIN reqs : ManageUserCommit(r)
       /\ LockoutBounds'
    \/ /\ Tick
       /\ LockoutBounds'

SpecLockout == InitLockout /\ [][NextLockout]_vars

(* The login decision: one or two logins, one at a time, with every kind   *)
(* of input, to an account in each condition the checks of login           *)
(* distinguish.                                                            *)

\* the account after n wrong-password logins in a row at time t
RECURSIVE AfterFailures(_, _, _)
AfterFailures(user, n, t) ==
    IF n = 0 THEN user ELSE RecordFailure(AfterFailures(user, n - 1, t), t)

\* the login_failed rows those n logins wrote
FailureEvents(uid, n) ==
    IF n = 0 THEN EmptyBag
    ELSE [e \in {SecurityEvent("login_failed", "medium", uid)} |-> n]

\* an account with or without 2FA, after 0, 4 or 5 failed logins at time 0,
\* which the limiter has counted in its current window
InitLogin ==
    /\ \E user \in {NewUser, TwoFactorUser(1)}, n \in {0, 4, 5} :
         /\ users = Table(AfterFailures(user, n, 0))
         /\ security_events = FailureEvents(1, n)
         /\ hits = n
    /\ users_id_seq = 1
    /\ audit_logs = EmptyBag
    /\ now = 0
    /\ tz = 0
    /\ resp = NoResponse
    /\ reqs = Connections
    /\ arg = <<>>

\* at most MaxNewEvents rows are added to those of the initial failures, and
\* at most MaxLoginHits requests to those counted in a window
LoginBounds ==
    LET failures == CopiesIn(SecurityEvent("login_failed", "medium", 1),
                             security_events)
        initial == IF failures >= 4 THEN 4 ELSE 0
    IN /\ Within(MaxFailed, initial + MaxNewEvents, MaxNewAudit, MaxTicks)
       /\ hits <= (IF now = 0 THEN initial ELSE 0) + MaxLoginHits

\* no code, the code of the account's secret for the next step, which the
\* window admits, and for the step after it, which it does not
LoginCodes == Codes({1}, now, {1, 2}) \cup {NoCode}

NextLogin ==
    \/ /\ LoginRequest(LoginNames, LoginPasswords \cup {NoPassword}, BOOLEAN, LoginCodes)
       /\ LoginBounds'
    \/ /\ \E r \in DOMAIN reqs : LoginSelect(r)
       /\ LoginBounds'
    \/ /\ \E r \in DOMAIN reqs : LoginLogFailed(r)
       /\ LoginBounds'
    \/ /\ \E r \in DOMAIN reqs : LoginCommitFailed(r)
       /\ LoginBounds'
    \/ /\ \E r \in DOMAIN reqs : LoginLogBlocked(r)
       /\ LoginBounds'
    \/ /\ \E r \in DOMAIN reqs : LoginLogTotpFailed(r)
       /\ LoginBounds'
    \/ /\ \E r \in DOMAIN reqs : LoginCommit(r)
       /\ LoginBounds'
    \/ /\ \E r \in DOMAIN reqs : LoginLogSuccess(r)
       /\ LoginBounds'
    \/ /\ ActivateUser("client", AdminToken, 1)
       /\ LoginBounds'
    \/ /\ \E r \in DOMAIN reqs : ActivateUserGet(r)
       /\ LoginBounds'
    \/ /\ DeactivateUser("client", AdminToken, 1)
       /\ LoginBounds'
    \/ /\ \E r \in DOMAIN reqs : DeactivateUserGet(r)
       /\ LoginBounds'
    \/ /\ \E r \in DOMAIN reqs : ManageUserCommit(r)
       /\ LoginBounds'
    \/ /\ Tick
       /\ LoginBounds'

SpecLogin == InitLogin /\ [][NextLogin]_vars

(* Two-factor lifecycle: setup, verification, disabling, with logins and   *)
(* password changes in between, each request run to completion before the  *)
(* next one arrives.                                                       *)

\* users.backup_codes is a nullable text column that no handler fills; a row
\* may carry a value written to the store directly
StoredBackupCodes == 1

\* bearer tokens presented: a remember-me access token of user 1, an access
\* token whose subject has no row, and a refresh token
TwoFactorTokens ==
    {create_access_token(1, timedelta(Days(REMEMBER_ME_DAYS)), 0),
     create_access_token(2, timedelta(Days(REMEMBER_ME_DAYS)), 0),
     create_refresh_token(1, 0)}

\* for each secret the code of the next step, which the window admits, and of
\* the step after it, which it does not
TwoFactorCodes == Codes(TotpSecrets, now, {1, 2})

InitTwoFactor ==
    /\ \E codes \in {NULL, StoredBackupCodes} :
          users = Table([NewUser EXCEPT !.backup_codes = codes])
    /\ security_events = EmptyBag
    /\ users_id_seq = 1
    /\ audit_logs = EmptyBag
    /\ now = 0
    /\ tz = 0
    /\ hits = 0
    /\ resp = NoResponse
    /\ reqs = Connections
    /\ arg = <<>>

\* rows logged by logins, logins counted in a window, and clock ticks
TwoFactorBounds ==
    /\ BagCardinality(security_events) + BagCardinality(audit_logs) <= MaxTwoFactorLogged
    /\ hits <= MaxTwoFactorHits
    /\ now <= MaxTwoFactorTicks * TickSeconds

\* the initial password and the one a password change sets: at any time one of
\* them is the account's password and the other is wrong
TwoFactorPasswords == {PwInitial, PwNew}

NextTwoFactor ==
    \/ /\ \E token \in TwoFactorTokens, password \in TwoFactorPasswords :
             Setup2fa("client", token, password)
       /\ TwoFactorBounds'
    \/ /\ \E r \in DOMAIN reqs, secret \in TotpSecrets : Setup2faGet(r, secret)
       /\ TwoFactorBounds'
    \/ /\ \E r \in DOMAIN reqs : Setup2faCommit(r)
       /\ TwoFactorBounds'
    \/ /\ \E token \in TwoFactorTokens, totp_code \in TwoFactorCodes :
             Verify2faSetup("client", token, totp_code)
       /\ TwoFactorBounds'
    \/ /\ \E r \in DOMAIN reqs : Verify2faGet(r)
       /\ TwoFactorBounds'
    \/ /\ \E r \in DOMAIN reqs : Verify2faCommit(r)
       /\ TwoFactorBounds'
    \/ /\ \E token \in TwoFactorTokens, password \in TwoFactorPasswords,
             totp_code \in TwoFactorCodes :
             Disable2fa("client", token, password, totp_code)
       /\ TwoFactorBounds'
    \/ /\ \E r \in DOMAIN reqs : Disable2faGet(r)
       /\ TwoFactorBounds'
    \/ /\ \E r \in DOMAIN reqs : Disable2faCommit(r)
       /\ TwoFactorBounds'
    \/ /\ LoginRequest({"alice"}, TwoFactorPasswords, {TRUE}, TwoFactorCodes \cup {NoCode})
       /\ TwoFactorBounds'
    \/ /\ \E r \in DOMAIN reqs : LoginSelect(r)
       /\ TwoFactorBounds'
    \/ /\ \E r \in DOMAIN reqs : LoginLogFailed(r)
       /\ TwoFactorBounds'
    \/ /\ \E r \in DOMAIN reqs : LoginCommitFailed(r)
       /\ TwoFactorBounds'
    \/ /\ \E r \in DOMAIN reqs : LoginLogTotpFailed(r)
       /\ TwoFactorBounds'
    \/ /\ \E r \in DOMAIN reqs : LoginCommit(r)
       /\ TwoFactorBounds'
    \/ /\ \E r \in DOMAIN reqs : LoginLogSuccess(r)
       /\ TwoFactorBounds'
    \/ /\ \E route \in Routes, token \in TwoFactorTokens,
             current_password \in {PwInitial, PwWrong},
             confirm_password \in {PwNew, PwWrong} :
             ChangePassword("client", route, token, current_password, PwNew, confirm_password)
       /\ TwoFactorBounds'
    \/ /\ \E r \in DOMAIN reqs, salt \in Salts : ChangePasswordGet(r, salt)
       /\ TwoFactorBounds'
    \/ /\ \E r \in DOMAIN reqs : ChangePasswordCommit(r)
       /\ TwoFactorBounds'
    \/ /\ Tick
       /\ TwoFactorBounds'

SpecTwoFactor == InitTwoFactor /\ [][NextTwoFactor]_vars

(* Overlapping logins: login requests with a wrong password for the same   *)
(* account, one on each connection, interleaved at the awaits of the       *)
(* handler's failure path: the select, the commit of the SecurityEvent,    *)
(* and the commit of the incremented counter.                              *)

Requests == 1..MaxReqs

\* the account after 0, 3 or 4 failed logins, and no request received yet
InitConcurrent ==
    /\ \E n \in {0, 3, 4} :
          /\ users = Table(AfterFailures(NewUser, n, 0))
          /\ security_events = FailureEvents(1, n)
    /\ users_id_seq = 1
    /\ audit_logs = EmptyBag
    /\ now = 0
    /\ tz = 0
    /\ hits = 0
    /\ resp = NoResponse
    /\ reqs = [r \in Requests |-> Idle]
    /\ arg = <<>>

NextConcurrent ==
    \/ \E r \in Requests : Fresh(r) /\ Login(r, "alice", PwWrong, FALSE, NoCode)
    \/ \E r \in Requests : LoginSelect(r)
    \/ \E r \in Requests : LoginLogFailed(r)
    \/ \E r \in Requests : LoginCommitFailed(r)

SpecConcurrent == InitConcurrent /\ [][NextConcurrent]_vars

(* Token verification: verify_token applied to the tokens the server      *)
(* issued at time 0 and to forged ones, as the clock advances, in each     *)
(* server time zone.                                                       *)

IssuedTokens ==
    UNION {{create_access_token(u, NoDelta, 0),
            create_access_token(u, timedelta(Days(REMEMBER_ME_DAYS)), 0),
            create_refresh_token(u, 0)} : u \in {1, 2}}

ForgedTokens == {[token EXCEPT !.key = "other-key"] : token \in IssuedTokens}

\* the instants around the two lifetimes
TokenTimes == {0, 1800, 1801, 604800, 604801}

Pending == "pending"

InitToken ==
    /\ users = Table(NewUser)
    /\ security_events = EmptyBag
    /\ users_id_seq = 1
    /\ audit_logs = EmptyBag
    /\ now = 0
    /\ tz \in TzOffsets
    /\ hits = 0
    /\ resp = NoResponse
    /\ reqs = <<>>
    /\ arg \in [token : IssuedTokens \cup ForgedTokens,
                 token_type : TokenKinds,
                 result : {Pending}]

\* verify_token(token, token_type) at the current time
VerifyToken ==
    /\ arg.result = Pending
    /\ arg' = [arg EXCEPT !.result = verify_token(arg.token, arg.token_type, now, tz)]
    /\ UNCHANGED <<users, users_id_seq, security_events, audit_logs, now, tz, hits, resp, reqs>>

\* time passes and the same token is presented again
TokenTick ==
    /\ \E t \in TokenTimes : t > now /\ now' = t
    /\ arg' = [arg EXCEPT !.result = Pending]
    /\ UNCHANGED <<users, users_id_seq, security_events, audit_logs, tz, hits, resp, reqs>>

NextToken == VerifyToken \/ TokenTick

SpecToken == InitToken /\ [][NextToken]_vars

(* Log store failures: logins to the accounts of the login scenario, one   *)
(* at a time, where the write of a request's log row may fail.             *)

NextLogStore ==
    \/ /\ LoginRequest(LoginNames, LoginPasswords, {FALSE}, LoginCodes)
       /\ LoginBounds'
    \/ /\ \E r \in DOMAIN reqs : LoginSelect(r)
       /\ LoginBounds'
    \/ /\ \E r \in DOMAIN reqs : LoginLogFailed(r)
       /\ LoginBounds'
    \/ /\ \E r \in DOMAIN reqs : LoginCommitFailed(r)
       /\ LoginBounds'
    \/ /\ \E r \in DOMAIN reqs : LoginLogBlocked(r)
       /\ LoginBounds'
    \/ /\ \E r \in DOMAIN reqs : LoginLogTotpFailed(r)
       /\ LoginBounds'
    \/ /\ \E r \in DOMAIN reqs : LoginCommit(r)
       /\ LoginBounds'
    \/ /\ \E r \in DOMAIN reqs : LoginLogSuccess(r)
       /\ LoginBounds'
    \/ /\ \E r \in DOMAIN reqs : LoginLogWriteFails(r)
       /\ LoginBounds'
    \/ /\ Tick
       /\ LoginBounds'

SpecLogStore == InitLogin /\ [][NextLogStore]_vars

(* Sessions: every request of the subsystem, one at a time, made           *)
(* with tokens issued earlier, against an account with or without 2FA,     *)
(* while the administrator changes is_active and the clock advances past   *)
(* the expiry of the access token.                                         *)

\* the pair a login issued to user 1 some time before time 0: the access token
\* runs out at 500, the refresh token seven days less half an hour later
SessionAccessToken ==
    create_access_token(1, NoDelta, 500 - Minutes(ACCESS_TOKEN_EXPIRE_MINUTES))
SessionRefreshToken == create_refresh_token(1, 500 - Minutes(ACCESS_TOKEN_EXPIRE_MINUTES))

\* the access token of a login with remember_me at the same time
LongAccessToken ==
    create_access_token(1, timedelta(Days(REMEMBER_ME_DAYS)),
                        500 - Minutes(ACCESS_TOKEN_EXPIRE_MINUTES))

\* a refresh token issued almost seven days before time 0, which runs out at 500
OldRefreshToken == create_refresh_token(1, 500 - Days(REFRESH_TOKEN_EXPIRE_DAYS))

\* refresh tokens presented: the one of the pair, the old one, one whose
\* subject has no row, one signed with another key; and the access tokens
SessionTokens ==
    {SessionAccessToken,
     LongAccessToken,
     SessionRefreshToken,
     OldRefreshToken,
     create_refresh_token(2, 0),
     [SessionRefreshToken EXCEPT !.key = "other-key"]}

\* bearer tokens presented to the token-authenticated handlers
SessionAccessTokens == {SessionAccessToken, LongAccessToken}

\* new passwords submitted: a strong one, one without digit, a short one
NewPasswords == {PwNew, PwNoDigit, PwShort}

\* the code of the next step, which the window admits, and of the step after it
SessionCodes == Codes({1}, now, {1, 2})

\* an account with 2FA on which four logins in a row have failed
InitSession ==
    /\ users = Table(AfterFailures(TwoFactorUser(1), 4, 0))
    /\ security_events = FailureEvents(1, 4)
    /\ InitOther

\* rows added to those of the initial failures, logins counted, clock ticks
SessionBounds ==
    LET failures == CopiesIn(SecurityEvent("login_failed", "medium", 1),
                             security_events)
        initial == IF failures >= 4 THEN 4 ELSE 0
    IN /\ BagCardinality(security_events) + BagCardinality(audit_logs)
            <= initial + MaxSessionLogged
       /\ hits <= MaxSessionHits
       /\ now <= MaxSessionTicks * TickSeconds

NextSession ==
    \/ /\ LoginRequest(LoginNames, TwoFactorPasswords, {FALSE},
                       SessionCodes \cup {NoCode})
       /\ SessionBounds'
    \/ /\ \E r \in DOMAIN reqs : LoginSelect(r)
       /\ SessionBounds'
    \/ /\ \E r \in DOMAIN reqs : LoginLogFailed(r)
       /\ SessionBounds'
    \/ /\ \E r \in DOMAIN reqs : LoginCommitFailed(r)
       /\ SessionBounds'
    \/ /\ \E r \in DOMAIN reqs : LoginLogBlocked(r)
       /\ SessionBounds'
    \/ /\ \E r \in DOMAIN reqs : LoginLogTotpFailed(r)
       /\ SessionBounds'
    \/ /\ \E r \in DOMAIN reqs : LoginCommit(r)
       /\ SessionBounds'
    \/ /\ \E r \in DOMAIN reqs : LoginLogSuccess(r)
       /\ SessionBounds'
    \/ /\ \E token \in SessionTokens : Refresh("client", token)
       /\ SessionBounds'
    \/ /\ \E r \in DOMAIN reqs : RefreshGet(r)
       /\ SessionBounds'
    \/ /\ \E token \in SessionTokens : Logout("client", token)
       /\ SessionBounds'
    \/ /\ \E r \in DOMAIN reqs : LogoutLog(r)
       /\ SessionBounds'
    \/ /\ \E route \in Routes, token \in SessionAccessTokens,
             current_password \in TwoFactorPasswords \cup {NoPassword},
             new_password \in NewPasswords, confirm_password \in {PwNew} :
             ChangePassword("client", route, token, current_password, new_password,
                            confirm_password)
       /\ SessionBounds'
    \/ /\ \E r \in DOMAIN reqs, salt \in Salts : ChangePasswordGet(r, salt)
       /\ SessionBounds'
    \/ /\ \E r \in DOMAIN reqs : ChangePasswordCommit(r)
       /\ SessionBounds'
    \/ /\ \E token \in SessionAccessTokens, password \in TwoFactorPasswords :
             Setup2fa("client", token, password)
       /\ SessionBounds'
    \/ /\ \E r \in DOMAIN reqs : Setup2faGet(r, 1)
       /\ SessionBounds'
    \/ /\ \E r \in DOMAIN reqs : Setup2faCommit(r)
       /\ SessionBounds'
    \/ /\ \E token \in SessionAccessTokens, totp_code \in SessionCodes :
             Verify2faSetup("client", token, totp_code)
       /\ SessionBounds'
    \/ /\ \E r \in DOMAIN reqs : Verify2faGet(r)
       /\ SessionBounds'
    \/ /\ \E r \in DOMAIN reqs : Verify2faCommit(r)
       /\ SessionBounds'
    \/ /\ \E token \in SessionAccessTokens, password \in TwoFactorPasswords,
             totp_code \in SessionCodes :
             Disable2fa("client", token, password, totp_code)
       /\ SessionBounds'
    \/ /\ \E r \in DOMAIN reqs : Disable2faGet(r)
       /\ SessionBounds'
    \/ /\ \E r \in DOMAIN reqs : Disable2faCommit(r)
       /\ SessionBounds'
    \/ /\ ActivateUser("client", AdminToken, 1)
       /\ SessionBounds'
    \/ /\ \E r \in DOMAIN reqs : ActivateUserGet(r)
       /\ SessionBounds'
    \/ /\ DeactivateUser("client", AdminToken, 1)
       /\ SessionBounds'
    \/ /\ \E r \in DOMAIN reqs : DeactivateUserGet(r)
       /\ SessionBounds'
    \/ /\ \E r \in DOMAIN reqs : ManageUserCommit(r)
       /\ SessionBounds'
    \/ /\ Tick
       /\ SessionBounds'

SpecSession == InitSession /\ [][NextSession]_vars

(* Requests step by step: login and logout requests, one on each          *)
(* connection, interleaved at the awaits of the handlers: the select, the  *)
(* commit of a log row and the commit of the user row.                     *)

StepRequests == 1..MaxStepReqs

\* the account as created, with 2FA, with the flag of 2FA and no secret (as a
\* verification that overlaps a disable leaves it), deactivated, or locked by
\* five failures
InitSteps ==
    /\ \E user \in {NewUser, TwoFactorUser(1),
                     Enable2fa(NewUser),
                     [NewUser EXCEPT !.is_active = FALSE],
                     AfterFailures(NewUser, 5, 0)} :
          /\ users = Table(user)
          /\ security_events = FailureEvents(1, user.failed_login_attempts)
    /\ users_id_seq = 1
    /\ audit_logs = EmptyBag
    /\ now = 0
    /\ tz = 0
    /\ hits = 0
    /\ resp = NoResponse
    /\ reqs = [r \in StepRequests |-> Idle]
    /\ arg = <<>>

NextSteps ==
    \/ \E r \in StepRequests, password \in LoginPasswords,
          totp_code \in Codes({1}, now, {1, 2}) \cup {NoCode} :
          Fresh(r) /\ Login(r, "alice", password, FALSE, totp_code)
    \/ \E r \in StepRequests : LoginSelect(r)
    \/ \E r \in StepRequests : LoginLogFailed(r)
    \/ \E r \in StepRequests : LoginCommitFailed(r)
    \/ \E r \in StepRequests : LoginLogBlocked(r)
    \/ \E r \in StepRequests : LoginLogTotpFailed(r)
    \/ \E r \in StepRequests : LoginCommit(r)
    \/ \E r \in StepRequests : LoginLogSuccess(r)
    \/ \E r \in StepRequests : Fresh(r) /\ Logout(r, SessionAccessToken)
    \/ \E r \in StepRequests : LogoutLog(r)
    \/ \E r \in StepRequests : Fresh(r) /\ DeactivateUser(r, AdminToken, 1)
    \/ \E r \in StepRequests : DeactivateUserGet(r)
    \/ \E r \in StepRequests : ManageUserCommit(r)

SpecSteps == InitSteps /\ [][NextSteps]_vars

(* TOTP verification: verify_totp_token applied to a stored secret and a   *)
(* submitted code, at instants at the start, inside and at the end of      *)
(* successive 30-second steps.                                             *)

\* codes submitted: for each secret, the code of each of the first steps
TotpTokens == {TotpAt(s, k) : s \in TotpSecrets, k \in 0..MaxTotpStep}

TotpTimes == {0, 29, 30, 59, 60, 89, 90, 119, 120}

InitTotp ==
    /\ users = Table(NewUser)
    /\ security_events = EmptyBag
    /\ users_id_seq = 1
    /\ audit_logs = EmptyBag
    /\ now = 0
    /\ tz = 0
    /\ hits = 0
    /\ resp = NoResponse
    /\ reqs = <<>>
    /\ arg \in [secret : TotpSecrets, token : TotpTokens,
                 called : {FALSE}, result : {FALSE}]

\* verify_totp_token(secret, token) at the current time
VerifyTotp ==
    /\ ~arg.called
    /\ arg' = [arg EXCEPT !.called = TRUE,
                          !.result = verify_totp_token(arg.secret, arg.token, now)]
    /\ UNCHANGED <<users, users_id_seq, security_events, audit_logs, now, tz, hits, resp, reqs>>

\* time passes and the same code is submitted again
TotpTick ==
    /\ \E t \in TotpTimes : t > now /\ now' = t
    /\ arg' = [arg EXCEPT !.called = FALSE, !.result = FALSE]
    /\ UNCHANGED <<users, users_id_seq, security_events, audit_logs, tz, hits, resp, reqs>>

NextTotp == VerifyTotp \/ TotpTick

SpecTotp == InitTotp /\ [][NextTotp]_vars

(* Password validation: the validator of UserCreate.password and of        *)
(* ChangePassword.new_password applied to every password of up to MaxPwLen *)
(* characters over one uppercase letter, one lowercase letter and a digit. *)

PwAlphabet == {"P", "a", "0"}

PasswordInputs == UNION {[1..n -> PwAlphabet] : n \in 0..MaxPwLen}

InitPassword ==
    /\ users = Table(NewUser)
    /\ security_events = EmptyBag
    /\ users_id_seq = 1
    /\ audit_logs = EmptyBag
    /\ now = 0
    /\ tz = 0
    /\ hits = 0
    /\ resp = NoResponse
    /\ reqs = <<>>
    /\ arg \in [password : PasswordInputs, result : {Pending}]

\* the validator runs on the submitted password
ValidatePassword ==
    /\ arg.result = Pending
    /\ arg' = [arg EXCEPT !.result = validate_password(arg.password)]
    /\ UNCHANGED <<users, users_id_seq, security_events, audit_logs, now, tz, hits, resp, reqs>>

NextPassword == ValidatePassword

SpecPassword == InitPassword /\ [][NextPassword]_vars

(* Tokens that outlive a change of the account: with the tokens of an     *)
(* earlier login, the account is locked by a wrong password, deactivated   *)
(* by the administrator or given a new password, and the token holder      *)
(* keeps calling the token-authenticated handlers and refresh.             *)

StaleBounds ==
    /\ BagCardinality(security_events) + BagCardinality(audit_logs)
         <= BagCardinality(FailureEvents(1, 4)) + MaxStaleLogged
    /\ hits <= MaxStaleHits
    /\ now <= MaxStaleTicks * TickSeconds

NextStale ==
    \/ /\ LoginRequest({"alice"}, {PwWrong}, {FALSE}, {NoCode})
       /\ StaleBounds'
    \/ /\ \E r \in DOMAIN reqs : LoginSelect(r)
       /\ StaleBounds'
    \/ /\ \E r \in DOMAIN reqs : LoginLogFailed(r)
       /\ StaleBounds'
    \/ /\ \E r \in DOMAIN reqs : LoginCommitFailed(r)
       /\ StaleBounds'
    \/ /\ \E token \in {SessionRefreshToken} : Refresh("client", token)
       /\ StaleBounds'
    \/ /\ \E r \in DOMAIN reqs : RefreshGet(r)
       /\ StaleBounds'
    \/ /\ \E token \in SessionAccessTokens : Logout("client", token)
       /\ StaleBounds'
    \/ /\ \E r \in DOMAIN reqs : LogoutLog(r)
       /\ StaleBounds'
    \/ /\ \E route \in Routes, token \in SessionAccessTokens,
             current_password \in TwoFactorPasswords,
             new_password \in {PwNew}, confirm_password \in {PwNew} :
             ChangePassword("client", route, token, current_password, new_password,
                            confirm_password)
       /\ StaleBounds'
    \/ /\ \E r \in DOMAIN reqs, salt \in Salts : ChangePasswordGet(r, salt)
       /\ StaleBounds'
    \/ /\ \E r \in DOMAIN reqs : ChangePasswordCommit(r)
       /\ StaleBounds'
    \/ /\ \E token \in SessionAccessTokens, password \in TwoFactorPasswords :
             Setup2fa("client", token, password)
       /\ StaleBounds'
    \/ /\ \E r \in DOMAIN reqs : Setup2faGet(r, 1)
       /\ StaleBounds'
    \/ /\ \E r \in DOMAIN reqs : Setup2faCommit(r)
       /\ StaleBounds'
    \/ /\ \E token \in SessionAccessTokens, totp_code \in SessionCodes :
             Verify2faSetup("client", token, totp_code)
       /\ StaleBounds'
    \/ /\ \E r \in DOMAIN reqs : Verify2faGet(r)
       /\ StaleBounds'
    \/ /\ \E r \in DOMAIN reqs : Verify2faCommit(r)
       /\ StaleBounds'
    \/ /\ \E token \in SessionAccessTokens, password \in TwoFactorPasswords,
             totp_code \in SessionCodes :
             Disable2fa("client", token, password, totp_code)
       /\ StaleBounds'
    \/ /\ \E r \in DOMAIN reqs : Disable2faGet(r)
       /\ StaleBounds'
    \/ /\ \E r \in DOMAIN reqs : Disable2faCommit(r)
       /\ StaleBounds'
    \/ /\ ActivateUser("client", AdminToken, 1)
       /\ StaleBounds'
    \/ /\ \E r \in DOMAIN reqs : ActivateUserGet(r)
       /\ StaleBounds'
    \/ /\ DeactivateUser("client", AdminToken, 1)
       /\ StaleBounds'
    \/ /\ \E r \in DOMAIN reqs : DeactivateUserGet(r)
       /\ StaleBounds'
    \/ /\ \E r \in DOMAIN reqs : ManageUserCommit(r)
       /\ StaleBounds'
    \/ /\ Tick
       /\ StaleBounds'

SpecStale == InitSession /\ [][NextStale]_vars

(* Password changes: the owner of an account changes the password, by      *)
(* either route, one request at a time, with the tokens of an earlier      *)
(* login, while the clock advances and the administrator deletes the       *)
(* account.                                                                *)

\* an account with 2FA, before any failed login or after four of them
InitChange ==
    /\ \E n \in {0, 4} :
         /\ users = Table(AfterFailures(TwoFactorUser(1), n, 0))
         /\ security_events = FailureEvents(1, n)
    /\ InitOther

\* clock ticks
ChangeBounds == now <= MaxChangeTicks * TickSeconds

NextChange ==
    \/ /\ \E route \in Routes, token \in SessionAccessTokens,
             current_password \in TwoFactorPasswords \cup {NoPassword},
             new_password \in NewPasswords, confirm_password \in {PwNew} :
             ChangePassword("client", route, token, current_password, new_password,
                            confirm_password)
       /\ ChangeBounds'
    \/ /\ \E r \in DOMAIN reqs, salt \in Salts : ChangePasswordGet(r, salt)
       /\ ChangeBounds'
    \/ /\ \E r \in DOMAIN reqs : ChangePasswordCommit(r)
       /\ ChangeBounds'
    \/ /\ DeleteUser("client", AdminToken, 1)
       /\ ChangeBounds'
    \/ /\ \E r \in DOMAIN reqs : DeleteUserGet(r)
       /\ ChangeBounds'
    \/ /\ \E r \in DOMAIN reqs : ManageUserCommit(r)
       /\ ChangeBounds'
    \/ /\ Tick
       /\ ChangeBounds'

SpecChange == InitChange /\ [][NextChange]_vars

(* User management: an administrator and the owner of an account create,  *)
(* update, deactivate and delete accounts, one request at a time, and the  *)
(* owner logs in, refreshes and logs out in between, as the clock advances. *)

\* bodies of PUT /users/me and PUT /users/{user_id}: the fields set
UserUpdates == {[username |-> "carol"], [is_active |-> FALSE]}

\* update_data of POST /users/bulk/update: two fields that are allowed and one
\* that is not
BulkUpdates ==
    {[is_active |-> FALSE], [language |-> "fr"], [failed_login_attempts |-> 0]}

\* bodies of POST /users/: a second account whose username is the e-mail
\* address of the first, one with the username of the first, and one whose
\* confirmation does not match
UserCreates ==
    {[username |-> name, email |-> "bob@example.com", is_active |-> TRUE,
      language |-> "en", timezone |-> "UTC",
      password |-> PwInitial, confirm_password |-> confirm] :
        name \in {"alice@example.com", "alice"}, confirm \in {PwInitial, PwNew}}

\* tokens presented for a refresh: the refresh token of the owner's pair, an
\* old one that runs out at 500, one of the administrator, and an access token
RefreshTokens ==
    {SessionRefreshToken, OldRefreshToken, create_refresh_token(2, 0),
     LongAccessToken}

\* bearer tokens of the administrator (user 2) and of the owner (user 1)
UsersTokens == {AdminToken, LongAccessToken}

InitUsers ==
    /\ users = Table(NewUser)
    /\ security_events = EmptyBag
    /\ InitOther

\* rows logged, logins counted, ids given out, clock ticks
UsersBounds ==
    /\ BagCardinality(security_events) + BagCardinality(audit_logs) <= MaxUsersLogged
    /\ hits <= MaxUsersHits
    /\ users_id_seq \in UserIds
    /\ now <= MaxUsersTicks * TickSeconds

NextUsers ==
    \/ /\ LoginRequest(LoginNames \cup LockoutNames, {PwInitial}, {FALSE}, {NoCode})
       /\ UsersBounds'
    \/ /\ \E r \in DOMAIN reqs : LoginSelect(r)
       /\ UsersBounds'
    \/ /\ \E r \in DOMAIN reqs : LoginLogFailed(r)
       /\ UsersBounds'
    \/ /\ \E r \in DOMAIN reqs : LoginLogBlocked(r)
       /\ UsersBounds'
    \/ /\ \E r \in DOMAIN reqs : LoginCommit(r)
       /\ UsersBounds'
    \/ /\ \E r \in DOMAIN reqs : LoginLogSuccess(r)
       /\ UsersBounds'
    \/ /\ \E token \in RefreshTokens : Refresh("client", token)
       /\ UsersBounds'
    \/ /\ \E r \in DOMAIN reqs : RefreshGet(r)
       /\ UsersBounds'
    \/ /\ \E token \in UsersTokens : Logout("client", token)
       /\ UsersBounds'
    \/ /\ \E r \in DOMAIN reqs : LogoutLog(r)
       /\ UsersBounds'
    \/ /\ \E token \in UsersTokens, user_id \in UserIds :
             ActivateUser("client", token, user_id)
       /\ UsersBounds'
    \/ /\ \E r \in DOMAIN reqs : ActivateUserGet(r)
       /\ UsersBounds'
    \/ /\ \E token \in UsersTokens, user_id \in UserIds :
             DeactivateUser("client", token, user_id)
       /\ UsersBounds'
    \/ /\ \E r \in DOMAIN reqs : DeactivateUserGet(r)
       /\ UsersBounds'
    \/ /\ \E r \in DOMAIN reqs : ManageUserCommit(r)
       /\ UsersBounds'
    \/ /\ \E token \in UsersTokens, user_id \in UserIds :
             DeleteUser("client", token, user_id)
       /\ UsersBounds'
    \/ /\ \E r \in DOMAIN reqs : DeleteUserGet(r)
       /\ UsersBounds'
    \/ /\ \E user_update \in UserUpdates :
             UpdateUser("client", "id", AdminToken, 1, user_update)
       /\ UsersBounds'
    \/ /\ \E user_update \in UserUpdates :
             UpdateUser("client", "me", LongAccessToken, 1, user_update)
       /\ UsersBounds'
    \/ /\ \E r \in DOMAIN reqs : UpdateUserGet(r)
       /\ UsersBounds'
    \/ /\ \E r \in DOMAIN reqs : SaveUserCommit(r)
       /\ UsersBounds'
    \/ /\ \E r \in DOMAIN reqs : SaveUserRefresh(r)
       /\ UsersBounds'
    \/ /\ \E update_data \in BulkUpdates : BulkUpdate("client", AdminToken, UserIds, update_data)
       /\ UsersBounds'
    \/ /\ \E r \in DOMAIN reqs : BulkUpdateSelect(r)
       /\ UsersBounds'
    \/ /\ \E r \in DOMAIN reqs : BulkUpdateCommit(r)
       /\ UsersBounds'
    \/ /\ \E user_data \in UserCreates : CreateUser("client", AdminToken, user_data)
       /\ UsersBounds'
    \/ /\ \E r \in DOMAIN reqs, salt \in Salts : CreateUserSelect(r, salt)
       /\ UsersBounds'
    \/ /\ \E r \in DOMAIN reqs : CreateUserFlush(r)
       /\ UsersBounds'
    \/ /\ Tick
       /\ UsersBounds'

SpecUsers == InitUsers /\ [][NextUsers]_vars

(* Reported expiry: logins with and without remember_me to the accounts  *)
(* of the login scenario, each followed by refreshes with the refresh      *)
(* token last issued, as the clock advances and the administrator          *)
(* deactivates and reactivates the account.                                *)

\* POST /refresh with the refresh token of the last response
RefreshIssued ==
    /\ resp.refresh_token # NoToken
    /\ Refresh("client", resp.refresh_token)

NextExpiry ==
    \/ /\ LoginRequest({"alice"}, {PwInitial}, BOOLEAN, LoginCodes)
       /\ LoginBounds'
    \/ /\ \E r \in DOMAIN reqs : LoginSelect(r)
       /\ LoginBounds'
    \/ /\ \E r \in DOMAIN reqs : LoginLogBlocked(r)
       /\ LoginBounds'
    \/ /\ \E r \in DOMAIN reqs : LoginLogTotpFailed(r)
       /\ LoginBounds'
    \/ /\ \E r \in DOMAIN reqs : LoginCommit(r)
       /\ LoginBounds'
    \/ /\ \E r \in DOMAIN reqs : LoginLogSuccess(r)
       /\ LoginBounds'
    \/ /\ RefreshIssued
       /\ LoginBounds'
    \/ /\ \E r \in DOMAIN reqs : RefreshGet(r)
       /\ LoginBounds'
    \/ /\ ActivateUser("client", AdminToken, 1)
       /\ LoginBounds'
    \/ /\ \E r \in DOMAIN reqs : ActivateUserGet(r)
       /\ LoginBounds'
    \/ /\ DeactivateUser("client", AdminToken, 1)
       /\ LoginBounds'
    \/ /\ \E r \in DOMAIN reqs : DeactivateUserGet(r)
       /\ LoginBounds'
    \/ /\ \E r \in DOMAIN reqs : ManageUserCommit(r)
       /\ LoginBounds'
    \/ /\ Tick
       /\ LoginBounds'

SpecExpiry == InitLogin /\ [][NextExpiry]_vars

(* Concurrent two-factor requests: setup, verification and disabling on   *)
(* one account, one request on each connection, interleaved between the    *)
(* read of the row and the commit. The caller's token and password are     *)
(* valid.                                                                  *)

\* the code of either secret for the current step
StepCodes == Codes(TotpSecrets, now, {0})

\* the account without 2FA, with a pending secret, or with 2FA on
InitTwoFactorSteps ==
    /\ users \in {Table(user) :
                    user \in {NewUser, StoreSecret(NewUser, 1), TwoFactorUser(1)}}
    /\ security_events = EmptyBag
    /\ users_id_seq = 1
    /\ audit_logs = EmptyBag
    /\ now = 0
    /\ tz = 0
    /\ hits = 0
    /\ resp = NoResponse
    /\ reqs = [r \in Requests |-> Idle]
    /\ arg = <<>>

NextTwoFactorSteps ==
    \/ \E r \in Requests : Fresh(r) /\ Setup2fa(r, LongAccessToken, PwInitial)
    \/ \E r \in Requests, secret \in TotpSecrets : Setup2faGet(r, secret)
    \/ \E r \in Requests : Setup2faCommit(r)
    \/ \E r \in Requests, totp_code \in StepCodes :
          Fresh(r) /\ Verify2faSetup(r, LongAccessToken, totp_code)
    \/ \E r \in Requests : Verify2faGet(r)
    \/ \E r \in Requests : Verify2faCommit(r)
    \/ \E r \in Requests, totp_code \in StepCodes :
          Fresh(r) /\ Disable2fa(r, LongAccessToken, PwInitial, totp_code)
    \/ \E r \in Requests : Disable2faGet(r)
    \/ \E r \in Requests : Disable2faCommit(r)

SpecTwoFactorSteps == InitTwoFactorSteps /\ [][NextTwoFactorSteps]_vars

----------------------------------------------------------------------------
(* Properties *)

PasswordOk(uid, password) == verify_password(password, users[uid].hashed_password)

NoTokens(r) == r.access_token = NoToken /\ r.refresh_token = NoToken

\* the request on connection r passes the awaited call pc in this step
Passes(r, pc) == reqs[r].pc = pc /\ reqs'[r].pc # pc

\* the request in flight on connection r is answered in this step
Answered(r) == ~Free(r) /\ reqs'[r].pc = "done"

\* a request arrives on connection r in this step
Arrives(r) == Free(r) /\ reqs'[r] # reqs[r]

\* the select of the login on connection r takes effect in this step: the
\* handler reads the row and the clock and decides. A login attempt, in the
\* statements below, is a login request that the rate limiter has let through
\* to the handler.
Selects(r) == reqs[r].op = "login" /\ Passes(r, "select")

\* the get of the request `op` on connection r takes effect in this step
Gets(r, op) == reqs[r].op = op /\ Passes(r, "get")

\* the response of the request that takes a step on connection r: the one it
\* is given in this step, or the one its handler has decided to give
Decided(r) == IF reqs'[r].pc = "done" THEN resp' ELSE reqs'[r].out

\* a request in flight keeps the response decided when its row was read, and
\* is answered with it
GivesDecided(r) ==
    ~Free(r) /\ reqs[r].out # NoResponse =>
        IF reqs'[r].pc = "done" THEN resp' = reqs[r].out
        ELSE reqs'[r].out = reqs[r].out

\* the step of a rejected wrong-password login that commits its event and
\* counts the failure finds the row as the request loaded it
CountsFailure(r) ==
    reqs[r].pc = "log_failed" /\ reqs[r].user_id # NoUser =>
       /\ reqs'[r].pc = "commit_failed"
       /\ reqs'[r].loaded = users'[reqs[r].user_id]
       /\ reqs'[r].user.failed_login_attempts = reqs[r].user.failed_login_attempts + 1

\* C1 as stated: from a clean account every wrong-password login, the logins
\* made one after another, counts one failure, the fifth in a row locks the
\* account until 30 minutes after the time it is counted, and while the lock
\* lasts every login with the correct password is rejected with the
\* account-locked error and gets no tokens.
C1_LockedRejectsEveryCorrectLogin ==
    [][\A r \in DOMAIN reqs :
         /\ GivesDecided(r)
         /\ Passes(r, "log_failed") =>
              /\ CountsFailure(r)
              /\ (reqs[r].user_id # NoUser /\ reqs[r].user.failed_login_attempts = 4) =>
                    reqs'[r].user.locked_until = now + 1800
         /\ Passes(r, "commit_failed") =>
              LET uid == reqs[r].user_id
              IN /\ users'[uid].failed_login_attempts =
                       users[uid].failed_login_attempts + 1
                 /\ users'[uid].locked_until = reqs[r].user.locked_until
                 /\ NoTokens(resp')
         /\ Selects(r) =>
              LET a == reqs[r].args
                  uid == FindByUsernameOrEmail(a.username)
              IN uid # NoUser =>
                   /\ ~PasswordOk(uid, a.password) =>
                         /\ reqs'[r].pc = "log_failed"
                         /\ NoTokens(Decided(r))
                   /\ (/\ PasswordOk(uid, a.password)
                       /\ users[uid].locked_until # NULL
                       /\ now < users[uid].locked_until) =>
                         /\ Decided(r).status = 401
                         /\ Decided(r).detail = "Account is locked until"
                         /\ Decided(r).until = users[uid].locked_until
                         /\ NoTokens(Decided(r))]_vars

\* C1 amended: the same, the locked-account rejection being that of an active
\* account (an inactive account is rejected as inactive before the lock is looked at).
C1_LockedRejectsCorrectLogin ==
    [][\A r \in DOMAIN reqs :
         /\ GivesDecided(r)
         /\ Passes(r, "log_failed") =>
              /\ CountsFailure(r)
              /\ (reqs[r].user_id # NoUser /\ reqs[r].user.failed_login_attempts = 4) =>
                    reqs'[r].user.locked_until = now + 1800
         /\ Passes(r, "commit_failed") =>
              LET uid == reqs[r].user_id
              IN /\ users'[uid].failed_login_attempts =
                       users[uid].failed_login_attempts + 1
                 /\ users'[uid].locked_until = reqs[r].user.locked_until
                 /\ NoTokens(resp')
         /\ Selects(r) =>
              LET a == reqs[r].args
                  uid == FindByUsernameOrEmail(a.username)
              IN uid # NoUser =>
                   /\ ~PasswordOk(uid, a.password) =>
                         /\ reqs'[r].pc = "log_failed"
                         /\ NoTokens(Decided(r))
                   /\ (/\ PasswordOk(uid, a.password)
                       /\ users[uid].is_active
                       /\ users[uid].locked_until # NULL
                       /\ now < users[uid].locked_until) =>
                         /\ Decided(r).status = 401
                         /\ Decided(r).detail = "Account is locked until"
                         /\ Decided(r).until = users[uid].locked_until
                         /\ NoTokens(Decided(r))]_vars

\* a correct-password login was rejected as locked right after the fifth failure
C1_Witness ==
    /\ resp.op = "login"
    /\ resp.detail = "Account is locked until"
    /\ users[1].failed_login_attempts = 5
    /\ users[1].locked_until = resp.until
    /\ now < users[1].locked_until
    /\ security_events = FailureEvents(1, 5)
                            (+) SetToBag({SecurityEvent("login_blocked", "medium", 1)})

\* the conditions login checks, read from the account as the request finds it
Found(username) == FindByUsernameOrEmail(username) # NoUser

CredentialsOk(username, password) ==
    /\ Found(username)
    /\ PasswordOk(FindByUsernameOrEmail(username), password)

Account(username) == users[FindByUsernameOrEmail(username)]

\* locked_until is null or not in the future
Unlocked(user) == user.locked_until = NULL \/ ~(user.locked_until > now)

\* the code of the current 30-second step, of the one before or of the one after
CodeInWindow(secret, totp_code) ==
    \/ totp_code = TotpAt(secret, (now \div 30) - 1)
    \/ totp_code = TotpAt(secret, now \div 30)
    \/ totp_code = TotpAt(secret, (now \div 30) + 1)

TwoFactorOk(user, totp_code) ==
    \/ ~user.is_2fa_enabled
    \/ totp_code # NoCode /\ CodeInWindow(user.totp_secret, totp_code)

IssuedPair(r, uid) ==
    /\ r.status = 200
    /\ r.access_token.type = "access" /\ r.access_token.sub = StrOf(uid)
    /\ r.access_token.key = SECRET_KEY
    /\ r.refresh_token.type = "refresh" /\ r.refresh_token.sub = StrOf(uid)
    /\ r.refresh_token.key = SECRET_KEY

\* C4: login issues an access+refresh pair exactly when the user is found, the
\* password verifies, the account is active and not locked, and 2FA is off or a
\* valid code came with the request; every rejection issues no token, and the
\* first failing check, in the order credentials, active, lock, 2FA, names it.
\* The response is decided on the row and the clock the handler reads when its
\* select takes effect, and is the one given; a request turned away before
\* the handler runs gets no token.
C4_LoginDecision ==
    [][\A r \in DOMAIN reqs :
         /\ GivesDecided(r)
         /\ Arrives(r) => NoTokens(Decided(r)) /\ users' = users
         /\ Selects(r) =>
              LET a == reqs[r].args
                  cred == CredentialsOk(a.username, a.password)
                  active == cred /\ Account(a.username).is_active
                  unlocked == active /\ Unlocked(Account(a.username))
                  second == unlocked /\ TwoFactorOk(Account(a.username), a.totp_code)
                  d == Decided(r)
              IN /\ second <=> d.status = 200
                 /\ second => IssuedPair(d, FindByUsernameOrEmail(a.username))
                 /\ ~second => NoTokens(d) /\ d.status \in {400, 401}
                 /\ ~cred => d.detail = "Incorrect username or password"
                 /\ cred /\ ~active => d.detail = "Account is inactive"
                 /\ active /\ ~unlocked => d.detail = "Account is locked until"
                 /\ unlocked /\ ~second =>
                      d.detail \in {"TOTP code required for 2FA",
                                    "Invalid TOTP code"}
      ]_vars

\* a login to a 2FA account succeeded and one was rejected at each check before
C4_Witness ==
    /\ resp.op = "login" /\ resp.status = 200
    /\ resp.user.is_2fa_enabled
    /\ resp.access_token.exp = now + 1800
    /\ BagCardinality(security_events) >= 6
    /\ audit_logs = SetToBag({AuditLog(1, "LOGIN", "auth")})

\* C6: a login whose password does not verify gets one and the same response,
\* 401 'Incorrect username or password', whether or not the user exists and
\* whatever the account's is_active, locked_until and is_2fa_enabled; the
\* inactive and locked rejections go only to a caller whose password verified.
C6_NoEnumeration ==
    [][\A r \in DOMAIN reqs :
         /\ GivesDecided(r)
         /\ Selects(r) =>
              LET a == reqs[r].args
              IN /\ ~CredentialsOk(a.username, a.password) =>
                      Decided(r) =
                        [op |-> "login", status |-> 401,
                         detail |-> "Incorrect username or password",
                         errors |-> <<>>,
                         access_token |-> NoToken, refresh_token |-> NoToken,
                         expires_in |-> NULL, user |-> NoProfile,
                         until |-> NULL, secret |-> NULL, backup_codes |-> 0]
                 /\ Decided(r).detail \in {"Account is inactive",
                                           "Account is locked until"} =>
                      CredentialsOk(a.username, a.password)
      ]_vars

\* a wrong password for a locked, inactive 2FA account got the generic answer
C6_Witness ==
    /\ resp.op = "login" /\ resp.detail = "Incorrect username or password"
    /\ users[1].is_2fa_enabled /\ ~users[1].is_active
    /\ users[1].failed_login_attempts = 6
    /\ users[1].locked_until > now
    /\ security_events = FailureEvents(1, 6)

\* C7: once the clock has passed locked_until, a login with correct credentials
\* to an active account (2FA off, or a valid code supplied), as the handler
\* finds them when its select takes effect, is not rejected as locked: it
\* succeeds, and its commit leaves failed_login_attempts 0 and locked_until
\* null.
C7_ExpiredLockLogin ==
    [][\A r \in DOMAIN reqs :
         /\ GivesDecided(r)
         /\ Selects(r) =>
              LET a == reqs[r].args
              IN (/\ CredentialsOk(a.username, a.password)
                  /\ Account(a.username).is_active
                  /\ Account(a.username).locked_until # NULL
                  /\ now > Account(a.username).locked_until
                  /\ TwoFactorOk(Account(a.username), a.totp_code)) =>
                   /\ IssuedPair(Decided(r), FindByUsernameOrEmail(a.username))
                   /\ reqs'[r].pc = "commit_login"
         /\ Passes(r, "commit_login") =>
              /\ users'[reqs[r].user_id].failed_login_attempts = 0
              /\ users'[reqs[r].user_id].locked_until = NULL
              /\ reqs'[r].pc = "log_login"
      ]_vars

\* the only successful login came after five failures and after the lock ran out
C7_Witness ==
    /\ resp.op = "login" /\ resp.status = 200
    /\ resp.user.is_2fa_enabled
    /\ resp.user.last_login > 1800
    /\ CopiesIn(SecurityEvent("login_failed", "medium", 1), security_events) = 5
    /\ BagCardinality(audit_logs) = 1
    /\ users[1].failed_login_attempts = 0
    /\ users[1].locked_until = NULL

\* C8: for an active, unlocked 2FA account and a verified password, a login
\* without a code is rejected 400 at once and appends no SecurityEvent; a login
\* with a wrong code is rejected 401 and appends exactly one 2fa_failed event
\* of severity high, at the one step it takes after its select; neither gets
\* tokens.
C8_TwoFactorRejections ==
    [][\A r \in DOMAIN reqs :
         /\ GivesDecided(r)
         /\ Arrives(r) => security_events' = security_events
         /\ Selects(r) =>
              LET a == reqs[r].args
              IN /\ security_events' = security_events
                 /\ (/\ CredentialsOk(a.username, a.password)
                     /\ Account(a.username).is_active
                     /\ Unlocked(Account(a.username))
                     /\ Account(a.username).is_2fa_enabled) =>
                      /\ a.totp_code = NoCode =>
                           /\ reqs'[r].pc = "done"
                           /\ resp'.status = 400
                           /\ NoTokens(resp')
                      /\ (/\ a.totp_code # NoCode
                          /\ ~CodeInWindow(Account(a.username).totp_secret,
                                           a.totp_code)) =>
                           /\ reqs'[r].pc = "log_totp"
                           /\ Decided(r).status = 401
                           /\ NoTokens(Decided(r))
         /\ Passes(r, "log_totp") =>
              /\ Answered(r)
              /\ security_events' = security_events (+) SetToBag(
                    {[event_type |-> "2fa_failed", severity |-> "high",
                      user_id |-> reqs[r].user_id]})
      ]_vars

\* C5: verify(token, expectedKind) returns the token's subject exactly when the
\* signature is valid under the server key, the kind claim equals the expected
\* kind and the current time is not past the expiry; every other case yields
\* the one invalid signal None.
C5_VerifyToken ==
    arg.result # Pending =>
      IF /\ arg.token.key = SECRET_KEY
         /\ arg.token.type = arg.token_type
         /\ ~(now > arg.token.exp)
      THEN arg.result = arg.token.sub
      ELSE arg.result = None

\* C3: in every state reached by setup2fa, verify2faSetup, disable2fa, login and
\* changePassword calls, each run to completion before the next one arrives,
\* is_2fa_enabled implies that totp_secret is non-null.
C3_EnabledHasSecret ==
    \A u \in Rows : users[u].is_2fa_enabled => users[u].totp_secret # NULL

\* 2FA is on, a second setup has replaced the secret, and a login was then
\* refused for its code
C3_Witness ==
    /\ users[1].is_2fa_enabled
    /\ users[1].totp_secret = 2
    /\ resp.op = "login" /\ resp.detail = "Invalid TOTP code"
    /\ security_events = SetToBag({SecurityEvent("2fa_failed", "high", 1)})

\* the user the request on connection r acts for: the subject of its token
Caller(r) == IntOf(reqs[r].args.user_id)

\* the request on connection r, of the handler op, passes its commit
Commits(r, op) == Passes(r, "commit") /\ reqs[r].op = op

\* no request is in flight
Quiet == \A r \in DOMAIN reqs : Free(r)

\* C9: is_2fa_enabled goes from false to true only in the commit of a
\* verify2faSetup call that found a secret stored by an earlier setup2fa and got
\* a code valid for it; without a stored secret the call is rejected with
\* '2FA setup not initiated', with a wrong code with 'Invalid TOTP code', and
\* both leave the user unchanged. The call decides on the row and the clock
\* it reads when its get takes effect.
C9_EnableOnlyByVerifiedSetup ==
    [][ /\ \A u \in Rows :
             \* a secret appears or changes only in a successful setup2fa
             /\ (users'[u].totp_secret # NULL
                   /\ users'[u].totp_secret # users[u].totp_secret)
                  => /\ resp'.op = "setup_2fa" /\ resp'.status = 200
                     /\ resp'.secret = users'[u].totp_secret
             \* the flag is raised only by a successful verify2faSetup
             /\ (~users[u].is_2fa_enabled /\ users'[u].is_2fa_enabled)
                  => /\ resp'.op = "verify_2fa_setup" /\ resp'.status = 200
                     /\ users[u].totp_secret # NULL
                     /\ \E r \in DOMAIN reqs :
                          Commits(r, "verify_2fa_setup") /\ reqs[r].user_id = u
        /\ \A r \in DOMAIN reqs :
             /\ GivesDecided(r)
             /\ (Arrives(r) /\ reqs'[r].op = "verify_2fa_setup") => users' = users
             /\ Gets(r, "verify_2fa_setup") =>
                  /\ users' = users
                  /\ IF \/ Row(Caller(r)) = NoRow
                        \/ users[Caller(r)].totp_secret = NULL
                       THEN /\ reqs'[r].pc = "done"
                            /\ resp'.status = 400
                            /\ resp'.detail = "2FA setup not initiated"
                     ELSE IF ~CodeInWindow(users[Caller(r)].totp_secret,
                                           reqs[r].args.totp_code)
                       THEN /\ reqs'[r].pc = "done"
                            /\ resp'.status = 400
                            /\ resp'.detail = "Invalid TOTP code"
                     ELSE /\ reqs'[r].pc = "commit"
                          /\ reqs'[r].user_id = Caller(r)
                          /\ Decided(r).status = 200
             /\ Commits(r, "verify_2fa_setup") =>
                  /\ users' = [users EXCEPT ![reqs[r].user_id].is_2fa_enabled = TRUE]
                  /\ Answered(r)
      ]_vars

\* 2FA was switched on by a verified setup
C9_Witness ==
    /\ resp.op = "verify_2fa_setup" /\ resp.status = 200
    /\ users[1].is_2fa_enabled /\ users[1].totp_secret # NULL
    /\ Quiet

\* C10: disable2fa succeeds only when the current password verifies and the code
\* is valid for the stored secret, both as its get finds them; success clears
\* is_2fa_enabled, totp_secret and backup_codes together, in the one commit of
\* the request; a rejected call leaves the three fields unchanged.
C10_DisableClearsTogether ==
    [][ \A r \in DOMAIN reqs :
          /\ GivesDecided(r)
          /\ (Arrives(r) /\ reqs'[r].op = "disable_2fa") =>
               users' = users /\ Decided(r).status # 200
          /\ Gets(r, "disable_2fa") =>
               /\ users' = users
               /\ IF Decided(r).status = 200
                    THEN /\ Row(Caller(r)) # NoRow
                         /\ PasswordOk(Caller(r), reqs[r].args.password)
                         /\ users[Caller(r)].totp_secret # NULL
                         /\ CodeInWindow(users[Caller(r)].totp_secret,
                                         reqs[r].args.totp_code)
                         /\ reqs'[r].pc = "commit"
                         /\ reqs'[r].user_id = Caller(r)
                  ELSE reqs'[r].pc = "done"
          /\ Commits(r, "disable_2fa") =>
               /\ ~users'[reqs[r].user_id].is_2fa_enabled
               /\ users'[reqs[r].user_id].totp_secret = NULL
               /\ users'[reqs[r].user_id].backup_codes = NULL
               /\ Answered(r)
               /\ resp'.status = 200
          /\ (Answered(r) /\ resp'.op = "disable_2fa" /\ resp'.status = 200) =>
               Commits(r, "disable_2fa")
      ]_vars

\* a successful disable, here of an account whose password had been changed
C10_Witness ==
    /\ resp.op = "disable_2fa" /\ resp.status = 200
    /\ ~users[1].is_2fa_enabled
    /\ users[1].totp_secret = NULL /\ users[1].backup_codes = NULL
    /\ verify_password(PwNew, users[1].hashed_password)

\* wrong-password requests that have completed, those whose login_failed row
\* is committed, and the tally before the first
Completed == Cardinality({r \in Requests : reqs[r].pc = "done"})

Received ==
    Cardinality({r \in Requests : reqs[r].pc \in {"commit_failed", "done"}})

InitialTally ==
    CopiesIn(SecurityEvent("login_failed", "medium", 1), security_events) - Received

\* C2: however concurrent wrong-password logins to one account interleave, once
\* k of them have completed failed_login_attempts has grown by exactly k, and
\* the account is locked as soon as 5 failed attempts have completed.
C2_NoUndercount ==
    /\ users[1].failed_login_attempts = InitialTally + Completed
    /\ InitialTally + Completed >= 5 => users[1].locked_until # NULL

\* C11: a successful setup2fa stores the fresh secret and nothing
\* else, and after it returns is_2fa_enabled is false; it becomes true only
\* in a later successful verify2faSetup; a setup2fa whose password does not
\* verify changes nothing.
C11_SetupLeavesDisabled ==
    [][ /\ \A r \in DOMAIN reqs :
             /\ GivesDecided(r)
             /\ (Arrives(r) /\ reqs'[r].op = "setup_2fa") =>
                  UNCHANGED <<users, security_events, audit_logs>>
             /\ (Gets(r, "setup_2fa") /\ Row(Caller(r)) # NoRow) =>
                  /\ UNCHANGED <<users, security_events, audit_logs>>
                  /\ IF PasswordOk(Caller(r), reqs[r].args.password)
                       THEN /\ reqs'[r].pc = "commit"
                            /\ reqs'[r].user_id = Caller(r)
                            /\ Decided(r).status = 200
                            /\ Decided(r).secret \in TotpSecrets
                     ELSE /\ reqs'[r].pc = "done"
                          /\ resp'.status = 400
             /\ Commits(r, "setup_2fa") =>
                  /\ users' = [users EXCEPT
                                 ![reqs[r].user_id].totp_secret = reqs[r].out.secret]
                  /\ ~users'[reqs[r].user_id].is_2fa_enabled
                  /\ Answered(r)
        /\ \A u \in Rows :
             (~users[u].is_2fa_enabled /\ users'[u].is_2fa_enabled) =>
               resp'.op = "verify_2fa_setup" /\ resp'.status = 200
      ]_vars

\* C12: every successful login leaves failed_login_attempts 0, locked_until
\* null and last_login the time the handler read when it let the login
\* through, appends exactly one LOGIN audit row for that user, and returns a
\* profile of the user without the password hash and without the TOTP
\* secret. The fields are written by the request's first commit and the
\* audit row by its second, with which it returns.
C12_SuccessfulLogin ==
    [][ \A r \in DOMAIN reqs :
          /\ GivesDecided(r)
          /\ (Arrives(r) /\ reqs'[r].op = "login") =>
               /\ UNCHANGED <<users, security_events, audit_logs>>
               /\ Decided(r).status # 200
          /\ Selects(r) =>
               /\ UNCHANGED <<users, security_events, audit_logs>>
               /\ Decided(r).status = 200 =>
                    /\ reqs'[r].pc = "commit_login"
                    /\ reqs'[r].user.last_login = now
                    /\ Decided(r).user.last_login = now
          /\ Passes(r, "commit_login") =>
               LET uid == reqs[r].user_id
               IN /\ users'[uid].failed_login_attempts = 0
                  /\ users'[uid].locked_until = NULL
                  /\ users'[uid].last_login = reqs[r].user.last_login
                  /\ UNCHANGED <<security_events, audit_logs>>
                  /\ reqs'[r].pc = "log_login"
          /\ Passes(r, "log_login") =>
               LET uid == reqs[r].user_id
               IN /\ Answered(r)
                  /\ users' = users
                  /\ users'[uid].failed_login_attempts = 0
                  /\ users'[uid].locked_until = NULL
                  /\ users'[uid].last_login = resp'.user.last_login
                  /\ audit_logs' = audit_logs (+) SetToBag(
                        {[user_id |-> uid, action |-> "LOGIN", resource |-> "auth"]})
                  /\ security_events' = security_events
                  /\ resp'.status = 200
                  /\ resp'.user.id = uid
                  /\ DOMAIN resp'.user \cap {"hashed_password", "totp_secret"} = {}
                  /\ resp'.secret = NULL
          /\ (Answered(r) /\ resp'.op = "login" /\ resp'.status = 200) =>
               Passes(r, "log_login")
      ]_vars

\* a login succeeded after four failures and a pause: the counter is back at
\* 0, last_login is the time of the login, and there is one LOGIN row
C12_Witness ==
    /\ resp.op = "login" /\ resp.status = 200
    /\ ~resp.user.is_2fa_enabled
    /\ now > 0 /\ resp.user.last_login = now /\ users[1].last_login = now
    /\ users[1].failed_login_attempts = 0 /\ users[1].locked_until = NULL
    /\ CopiesIn(SecurityEvent("login_failed", "medium", 1), security_events) = 4
    /\ audit_logs = SetToBag({AuditLog(1, "LOGIN", "auth")})

\* a field of a user row other than is_active, which the administrator sets,
\* differs after the step
CredentialChanged ==
    \E u \in Rows :
        [users'[u] EXCEPT !.is_active = TRUE] # [users[u] EXCEPT !.is_active = TRUE]

\* the request on connection r completes with this step, having changed a field
\* of a user row: in this step, or, for a login that succeeds, in the commit
\* before its audit write
CompletesChange(r) ==
    /\ reqs'[r].pc = "done"
    /\ reqs'[r] # reqs[r]
    /\ CredentialChanged \/ reqs[r].pc = "log_login"

\* the logout on connection r returns in this step
LogsOut(r) == reqs[r].op = "logout" /\ Passes(r, "log") /\ resp'.status = 200

\* C13: every completed operation that changes a field of a user row
\* (successful login, failed-login count or lock, changePassword, setup2fa,
\* verify2faSetup, disable2fa) and every logout appends at least one audit row.
C13_EveryChangeAudited ==
    [][ \A r \in DOMAIN reqs :
          (CompletesChange(r) \/ LogsOut(r))
          => BagCardinality(audit_logs') >= BagCardinality(audit_logs) + 1
      ]_vars

\* the log write a login with these inputs awaits when it is rejected for an
\* anomaly, "none" when it is not
AnomalyOf(username, password, totp_code) ==
    IF ~CredentialsOk(username, password)
      THEN "log_failed"
    ELSE IF ~Account(username).is_active \/ ~Unlocked(Account(username))
      THEN "log_blocked"
    ELSE IF /\ Account(username).is_2fa_enabled
            /\ totp_code # NoCode
            /\ ~CodeInWindow(Account(username).totp_secret, totp_code)
      THEN "log_totp"
    ELSE "none"

\* the event row of the anomaly
EventOf(pc, uid) ==
    IF pc = "log_failed"
      THEN [event_type |-> "login_failed", severity |-> "medium",
            user_id |-> IF uid # NoUser THEN uid ELSE NULL]
    ELSE IF pc = "log_blocked"
      THEN [event_type |-> "login_blocked", severity |-> "medium", user_id |-> uid]
    ELSE [event_type |-> "2fa_failed", severity |-> "high", user_id |-> uid]

LogsAnomaly(pc) == pc \in {"log_failed", "log_blocked", "log_totp"}

\* C14: no request that succeeds (login, refresh, logout, changePassword,
\* setup2fa, verify2faSetup, disable2fa) appends a SecurityEvent; a step that
\* appends one appends exactly one, in a rejected login: login_failed (medium)
\* for an unknown user or a wrong password, login_blocked (medium) for an
\* inactive or locked account, 2fa_failed (high) for a wrong TOTP code; and
\* no row of audit_logs or security_events is ever changed or removed by
\* these operations.
C14_EventsOnlyForAnomalies ==
    [][ /\ security_events \sqsubseteq security_events'
        /\ audit_logs \sqsubseteq audit_logs'
        /\ security_events' # security_events =>
             \E r \in DOMAIN reqs : LogsAnomaly(reqs[r].pc) /\ Passes(r, reqs[r].pc)
        /\ \A r \in DOMAIN reqs :
             /\ GivesDecided(r)
             \* a login comes to a log write only for the anomaly its select finds
             /\ Selects(r) =>
                  /\ security_events' = security_events
                  /\ LogsAnomaly(reqs'[r].pc) =>
                       /\ reqs'[r].pc = AnomalyOf(reqs[r].args.username,
                                                  reqs[r].args.password,
                                                  reqs[r].args.totp_code)
                       /\ reqs'[r].user_id =
                            FindByUsernameOrEmail(reqs[r].args.username)
             \* the log write appends the one row of the anomaly, and the
             \* request is rejected
             /\ (LogsAnomaly(reqs[r].pc) /\ Passes(r, reqs[r].pc)) =>
                  /\ security_events' = security_events (+) SetToBag(
                        {EventOf(reqs[r].pc, reqs[r].user_id)})
                  /\ reqs[r].out.status = 401
             \* every other step of a request appends none
             /\ (reqs'[r] # reqs[r] /\ ~LogsAnomaly(reqs[r].pc)) =>
                  security_events' = security_events
      ]_vars

\* a refresh succeeded after a login with a wrong code had been recorded, and
\* added nothing
C14_Witness ==
    /\ resp.op = "refresh" /\ resp.status = 200
    /\ security_events = FailureEvents(1, 4)
                            (+) SetToBag({SecurityEvent("2fa_failed", "high", 1)})
    /\ audit_logs = EmptyBag

\* C15: a log write that fails does not undo or prevent the action it belongs
\* to: when the SecurityEvent write of a wrong-password login to an existing
\* account fails, the failure is still counted and stored, and the lock set at
\* the fifth; when the LOGIN audit write of a successful login fails, the
\* reset of the counter and lock and the new last_login stay committed.
C15_LogFailureKeepsAction ==
    [][ \A r \in DOMAIN reqs :
          LoginLogWriteFails(r) =>
            LET uid == reqs[r].user_id
            IN /\ (reqs[r].pc = "log_failed" /\ uid # NoUser) =>
                    /\ users'[uid].failed_login_attempts =
                         users[uid].failed_login_attempts + 1
                    /\ users'[uid].failed_login_attempts >= 5 =>
                         users'[uid].locked_until = now + 1800
               /\ reqs[r].pc = "log_login" =>
                    /\ users'[uid].failed_login_attempts = 0
                    /\ users'[uid].locked_until = NULL
                    /\ users'[uid].last_login = reqs[r].user.last_login
      ]_vars

\* requests whose caller has received a response of this kind
Returned(op, status, details) ==
    Cardinality({r \in StepRequests :
                    /\ reqs[r].pc = "done"
                    /\ reqs[r].out.op = op
                    /\ reqs[r].out.status = status
                    /\ reqs[r].out.detail \in details})

\* login_failed rows of the failures before the first request
StepInitialFailures ==
    IF CopiesIn(SecurityEvent("login_failed", "medium", 1), security_events) >= 5
    THEN 5 ELSE 0

\* C16: whenever the caller of a login or logout has its response, the row the
\* request wrote is committed: for every kind of response (login_failed,
\* login_blocked and 2fa_failed rejections, successful login, logout) the
\* store holds at least one row of its kind per response returned.
C16_RecordedBeforeResponse ==
    /\ CopiesIn(SecurityEvent("login_failed", "medium", 1), security_events)
         >= StepInitialFailures
              + Returned("login", 401, {"Incorrect username or password"})
    /\ CopiesIn(SecurityEvent("login_blocked", "medium", 1), security_events)
         >= Returned("login", 401, {"Account is inactive", "Account is locked until"})
    /\ CopiesIn(SecurityEvent("2fa_failed", "high", 1), security_events)
         >= Returned("login", 401, {"Invalid TOTP code"})
    /\ CopiesIn(AuditLog(1, "LOGIN", "auth"), audit_logs)
         >= Cardinality({r \in StepRequests :
                            /\ reqs[r].pc = "done"
                            /\ reqs[r].out.op = "login"
                            /\ reqs[r].out.status = 200})
    /\ CopiesIn(AuditLog(1, "LOGOUT", "auth"), audit_logs)
         >= Returned("logout", 200, {"Successfully logged out"})

\* a blocked login has been answered while a wrong-password login, whose row
\* is committed, has not yet returned
C16_Witness ==
    /\ Returned("login", 401, {"Account is locked until"}) = 1
    /\ \E r \in StepRequests : reqs[r].pc = "commit_failed"
    /\ resp.op = "login" /\ resp.detail = "Account is locked until"
    /\ security_events = FailureEvents(1, 6)
                            (+) SetToBag({SecurityEvent("login_blocked", "medium", 1)})

\* the token is signed by the server, of the kind expected, and the clock is
\* not past its expiry
Valid(token, kind) ==
    /\ token.key = SECRET_KEY
    /\ token.type = kind
    /\ ~(now > token.exp)

\* the user has logged out at some time before
LoggedOut(u) ==
    CopiesIn([user_id |-> u, action |-> "LOGOUT", resource |-> "auth"], audit_logs) > 0

\* C17: a logout appends exactly one LOGOUT audit row for the subject of the
\* access token and changes nothing else, no field of a user and no
\* SecurityEvent; and after it the tokens held before are still accepted
\* until their expiry: the refresh token still refreshes, and the access
\* token still authenticates (a second logout is accepted).
C17_LogoutOnlyAudits ==
    [][ \A r \in DOMAIN reqs :
          /\ (Arrives(r) /\ reqs'[r].op = "logout") =>
               /\ UNCHANGED <<users, security_events, audit_logs>>
               /\ \A token \in SessionTokens :
                    Logout(r, token) =>
                      IF Valid(token, "access")
                        THEN /\ reqs'[r].pc = "log"
                             /\ reqs'[r].added =
                                  Added("audit_logs",
                                        [user_id |-> IntOf(token.sub),
                                         action |-> "LOGOUT", resource |-> "auth"])
                        ELSE reqs'[r].pc = "done" /\ resp'.status = 401
          /\ (reqs[r].op = "logout" /\ Passes(r, "log")) =>
               /\ Answered(r)
               /\ resp'.status = 200
               /\ audit_logs' = audit_logs (+) SetToBag({reqs[r].added.row})
               /\ UNCHANGED <<users, security_events>>
          /\ (Arrives(r) /\ reqs'[r].op = "refresh") =>
               \A token \in SessionTokens :
                 Refresh(r, token) =>
                   IF Valid(token, "refresh")
                     THEN /\ reqs'[r].pc = "get"
                          /\ reqs'[r].args.user_id = token.sub
                     ELSE reqs'[r].pc = "done"
          /\ (/\ Gets(r, "refresh")
              /\ Row(Caller(r)) # NoRow
              /\ LoggedOut(Caller(r))
              /\ users[Caller(r)].is_active) =>
               IssuedPair(resp', Caller(r))
      ]_vars

\* C18: refresh issues a new access+refresh pair exactly when the token
\* presented verifies as a refresh token (an access token does not) and its
\* subject, when the get of the handler takes effect, has a row and is
\* active; every other refresh is rejected 401 without tokens; and no refresh
\* appends an audit row or a SecurityEvent or changes a field of a user.
C18_RefreshDecision ==
    [][ \A r \in DOMAIN reqs :
          /\ (Arrives(r) /\ reqs'[r].op = "refresh") =>
               /\ UNCHANGED <<users, security_events, audit_logs>>
               /\ \A token \in RefreshTokens :
                    Refresh(r, token) =>
                      IF Valid(token, "refresh")
                        THEN /\ reqs'[r].pc = "get"
                             /\ reqs'[r].args.user_id = token.sub
                        ELSE /\ reqs'[r].pc = "done"
                             /\ resp'.status = 401 /\ NoTokens(resp')
          /\ Gets(r, "refresh") =>
               LET ok == /\ Row(Caller(r)) # NoRow
                         /\ users[Caller(r)].is_active
               IN /\ ok <=> resp'.status = 200
                  /\ ok => /\ IssuedPair(resp', Caller(r))
                           /\ resp'.access_token.exp = now + 1800
                           /\ resp'.refresh_token.exp = now + 604800
                  /\ ~ok => resp'.status = 401 /\ NoTokens(resp')
                  /\ reqs'[r].pc = "done"
                  /\ UNCHANGED <<users, security_events, audit_logs>>
      ]_vars

\* the administrator has deleted the account, and the refresh token its owner
\* still holds was refused
C18_Witness ==
    /\ resp.op = "refresh" /\ resp.status = 401
    /\ resp.detail = "User not found or inactive"
    /\ users[1] = NoRow
    /\ users[2] # NoRow

\* the strength rules: eight characters or more, with an uppercase letter, a
\* lowercase letter and a digit
Strong(password) ==
    /\ Len(password) >= 8
    /\ \E i \in DOMAIN password : password[i] \in UpperChars
    /\ \E i \in DOMAIN password : password[i] \in LowerChars
    /\ \E i \in DOMAIN password : password[i] \in DigitChars

\* the request on connection r is a password change, by either route
ChangesPassword(request) ==
    request.op \in {"change_password", "change_user_password"}

\* C19: changePassword is refused 401 without a valid access token; with one,
\* a new password that breaks the strength rules is rejected 422 when the
\* request arrives, and a current password that does not verify against the
\* hash the handler loads is rejected 400, and the user row is unchanged; a
\* token whose subject has no row is answered 404; a successful call changes
\* hashed_password, to a hash that verifies the new password, and
\* password_changed_at, the time the handler read when it verified the
\* current password, and no other field; and no call appends an audit row or
\* a SecurityEvent.
C19_ChangePassword ==
    [][ \A r \in DOMAIN reqs :
          /\ ChangesPassword(reqs[r]) => GivesDecided(r)
          /\ (Arrives(r) /\ ChangesPassword(reqs'[r])) =>
               \A route \in Routes, token \in SessionAccessTokens,
                  current_password \in TwoFactorPasswords \cup {NoPassword},
                  new_password \in NewPasswords, confirm_password \in {PwNew} :
                 ChangePassword(r, route, token, current_password, new_password,
                                confirm_password) =>
                   /\ UNCHANGED <<users, security_events, audit_logs>>
                   /\ ~Valid(token, "access") =>
                        reqs'[r].pc = "done" /\ resp'.status = 401
                   /\ (/\ Valid(token, "access")
                       /\ \/ ~Strong(new_password)
                          \/ current_password = NoPassword) =>
                        reqs'[r].pc = "done" /\ resp'.status = 422
                   /\ (/\ Valid(token, "access")
                       /\ current_password # NoPassword
                       /\ Strong(new_password)
                       /\ confirm_password = new_password) =>
                        /\ reqs'[r].pc = "get"
                        /\ reqs'[r].args.user_id = token.sub
                        /\ reqs'[r].args.current_password = current_password
                        /\ reqs'[r].args.new_password = new_password
          /\ (Passes(r, "get") /\ ChangesPassword(reqs[r])) =>
               /\ UNCHANGED <<users, security_events, audit_logs>>
               /\ IF Row(Caller(r)) = NoRow
                    THEN reqs'[r].pc = "done" /\ resp'.status = 404
                  ELSE IF PasswordOk(Caller(r), reqs[r].args.current_password)
                    THEN /\ reqs'[r].pc = "commit"
                         /\ reqs'[r].user_id = Caller(r)
                         /\ Decided(r).status = 200
                         /\ verify_password(reqs[r].args.new_password,
                                            reqs'[r].user.hashed_password)
                         /\ reqs'[r].user =
                              [users[Caller(r)] EXCEPT
                                 !.hashed_password =
                                     reqs'[r].user.hashed_password,
                                 !.password_changed_at = now]
                  ELSE reqs'[r].pc = "done" /\ resp'.status = 400
          /\ (Passes(r, "commit") /\ ChangesPassword(reqs[r])) =>
               /\ users' = [users EXCEPT
                     ![reqs[r].user_id].hashed_password =
                         reqs[r].user.hashed_password,
                     ![reqs[r].user_id].password_changed_at =
                         reqs[r].user.password_changed_at]
               /\ UNCHANGED <<security_events, audit_logs>>
               /\ Answered(r)
               /\ resp'.status = 200
      ]_vars

\* the password was changed at time 1000 on an account with 2FA and four
\* failed logins, which it still has; the new hash has a salt of its own
C19_Witness ==
    /\ resp.op = "change_password" /\ resp.status = 200
    /\ verify_password(PwNew, users[1].hashed_password)
    /\ users[1].hashed_password.salt # NewUser.hashed_password.salt
    /\ users[1].password_changed_at = now /\ now > 0
    /\ users[1].failed_login_attempts = 4
    /\ users[1].is_2fa_enabled /\ users[1].totp_secret = 1

\* the code is that of a step two or more steps away from the current one
CodeOfDistantStep(secret, totp_code) ==
    \E k \in 0..(MaxTotpStep + 1) :
        /\ totp_code = TotpAt(secret, k)
        /\ k - (now \div 30) >= 2 \/ (now \div 30) - k >= 2

\* C20: a submitted code is accepted exactly when it is the code of the
\* current 30-second step, of the step before or of the step after, for the
\* stored secret; a code that is only that of a step two or more steps away
\* is rejected.
C20_TotpWindow ==
    arg.called =>
      /\ arg.result <=> CodeInWindow(arg.secret, arg.token)
      /\ (/\ CodeOfDistantStep(arg.secret, arg.token)
          /\ ~CodeInWindow(arg.secret, arg.token)) => ~arg.result

\* in the last second of step 1 the code of step 0 was accepted
C20_Witness ==
    /\ arg.called /\ arg.result
    /\ now = 59
    /\ arg.token = TotpAt(arg.secret, 0)

\* the reference result: every rule the password breaks
Violations(password) ==
    {m \in {"Password must be at least 8 characters long",
            "Password must contain at least one uppercase letter",
            "Password must contain at least one lowercase letter",
            "Password must contain at least one digit"} :
       \/ m = "Password must be at least 8 characters long"
            /\ Len(password) < 8
       \/ m = "Password must contain at least one uppercase letter"
            /\ ~\E i \in DOMAIN password : password[i] \in UpperChars
       \/ m = "Password must contain at least one lowercase letter"
            /\ ~\E i \in DOMAIN password : password[i] \in LowerChars
       \/ m = "Password must contain at least one digit"
            /\ ~\E i \in DOMAIN password : password[i] \in DigitChars}

\* the rules a validation result reports as broken
Reported(result) == IF result = "ok" THEN {} ELSE {result}

\* C21: password validation answers ok exactly when the password has eight
\* characters or more and holds an uppercase letter, a lowercase letter and a
\* digit; otherwise it reports every rule the password breaks, not only the
\* first one.
C21_ReportsEveryViolation ==
    arg.result # Pending =>
      /\ arg.result = "ok" <=> Strong(arg.password)
      /\ Reported(arg.result) = Violations(arg.password)
\* C22: a login to an existing user whose password does not verify adds 1 to
\* failed_login_attempts and appends one login_failed SecurityEvent with the
\* user's id; locked_until becomes the time the handler counts the failure
\* + 30 minutes exactly when the new counter is 5 or more and is unchanged
\* otherwise. A login for an unknown username or email appends one
\* login_failed SecurityEvent with a null user id and changes no user row.
\* The event is committed first, the counter and the lock by the commit that
\* follows.
C22_FailedLoginRecorded ==
    [][\A r \in DOMAIN reqs :
         /\ GivesDecided(r)
         /\ (Selects(r) /\ ~CredentialsOk(reqs[r].args.username,
                                          reqs[r].args.password)) =>
              /\ reqs'[r].pc = "log_failed"
              /\ reqs'[r].user_id = FindByUsernameOrEmail(reqs[r].args.username)
              /\ Decided(r).detail = "Incorrect username or password"
              /\ UNCHANGED <<users, security_events, audit_logs>>
         /\ Passes(r, "log_failed") =>
              /\ security_events' = security_events (+)
                   SetToBag({[event_type |-> "login_failed", severity |-> "medium",
                              user_id |-> IF reqs[r].user_id # NoUser
                                          THEN reqs[r].user_id ELSE NULL]})
              /\ users' = users
              /\ CountsFailure(r)
              /\ reqs[r].user_id # NoUser =>
                   reqs'[r].user.locked_until =
                     IF reqs'[r].user.failed_login_attempts >= 5
                     THEN now + 30 * 60
                     ELSE users[reqs[r].user_id].locked_until
              /\ reqs[r].user_id = NoUser => Answered(r)
         /\ Passes(r, "commit_failed") =>
              LET uid == reqs[r].user_id
              IN /\ users'[uid].failed_login_attempts =
                       users[uid].failed_login_attempts + 1
                 /\ users'[uid].failed_login_attempts =
                       reqs[r].user.failed_login_attempts
                 /\ users'[uid].locked_until = reqs[r].user.locked_until
                 /\ security_events' = security_events
                 /\ Answered(r)
      ]_vars

\* after a failed login for an unknown name, the fifth wrong password for
\* alice locked her account for 30 minutes from now
C22_Witness ==
    /\ resp.op = "login" /\ resp.detail = "Incorrect username or password"
    /\ users[1].failed_login_attempts = 5
    /\ users[1].locked_until = now + 1800
    /\ now > 0
    /\ CopiesIn([event_type |-> "login_failed", severity |-> "medium",
                 user_id |-> NULL], security_events) = 1
    /\ CopiesIn([event_type |-> "login_failed", severity |-> "medium",
                 user_id |-> 1], security_events) = 5

\* C23: a login with correct credentials that is rejected because the account
\* is inactive or locked appends exactly one login_blocked SecurityEvent of
\* medium severity and leaves failed_login_attempts, locked_until and
\* last_login as they were; when the account is both inactive and locked the
\* rejection is the account-inactive error.
C23_BlockedLoginFrame ==
    [][\A r \in DOMAIN reqs :
         /\ GivesDecided(r)
         /\ Selects(r) =>
              LET a == reqs[r].args
              IN (/\ CredentialsOk(a.username, a.password)
                  /\ ~Account(a.username).is_active
                       \/ ~Unlocked(Account(a.username))) =>
                   /\ reqs'[r].pc = "log_blocked"
                   /\ reqs'[r].user_id = FindByUsernameOrEmail(a.username)
                   /\ Decided(r).status = 401 /\ NoTokens(Decided(r))
                   /\ Decided(r).detail = IF ~Account(a.username).is_active
                                          THEN "Account is inactive"
                                          ELSE "Account is locked until"
                   /\ UNCHANGED <<users, security_events, audit_logs>>
         /\ Passes(r, "log_blocked") =>
              LET uid == reqs[r].user_id
              IN /\ security_events' = security_events (+)
                      SetToBag({[event_type |-> "login_blocked",
                                 severity |-> "medium", user_id |-> uid]})
                 /\ users'[uid].failed_login_attempts =
                      users[uid].failed_login_attempts
                 /\ users'[uid].locked_until = users[uid].locked_until
                 /\ users'[uid].last_login = users[uid].last_login
                 /\ Answered(r)
      ]_vars

\* a correct-password login to an account both locked and inactive was
\* rejected as inactive, and logged once
C23_Witness ==
    /\ resp.op = "login" /\ resp.detail = "Account is inactive"
    /\ ~users[1].is_active
    /\ users[1].locked_until # NULL /\ users[1].locked_until > now
    /\ users[1].failed_login_attempts = 5
    /\ CopiesIn([event_type |-> "login_blocked", severity |-> "medium",
                 user_id |-> 1], security_events) = 1

\* C24: in every state reached from a fresh account (counter 0, no lock) by
\* login attempts run one at a time, locked_until is set exactly when
\* failed_login_attempts is 5 or more, and the counter is never negative.
C24_LockIffThreshold ==
    \A u \in Rows :
        /\ users[u].locked_until # NULL <=> users[u].failed_login_attempts >= 5
        /\ users[u].failed_login_attempts >= 0

\* the account was locked by five failures and a later successful login
\* cleared both fields
C24_Witness ==
    /\ resp.op = "login" /\ resp.status = 200
    /\ users[1].failed_login_attempts = 0 /\ users[1].locked_until = NULL
    /\ security_events = FailureEvents(1, 5)

\* C25: the end of a lock does not reset the failure counter: once
\* locked_until has passed with no successful login since, the counter is
\* still 5 or more, and one more wrong-password attempt locks the account
\* again at once, for 30 minutes from the time the handler counts it.
C25_ExpiredLockRelocks ==
    [][\A u \in Rows :
        \* the passing of time writes neither field
        /\ now' # now =>
             /\ users'[u].failed_login_attempts = users[u].failed_login_attempts
             /\ users'[u].locked_until = users[u].locked_until
        \* a lock that has run out has left the counter, and the handler that
        \* counts one more failure then sets a new lock
        /\ (users[u].locked_until # NULL /\ ~(users[u].locked_until > now)) =>
             /\ users[u].failed_login_attempts >= 5
             /\ \A r \in DOMAIN reqs :
                  /\ (/\ Selects(r)
                      /\ FindByUsernameOrEmail(reqs[r].args.username) = u
                      /\ ~PasswordOk(u, reqs[r].args.password)) =>
                       /\ reqs'[r].pc = "log_failed"
                       /\ reqs'[r].user_id = u
                  /\ (Passes(r, "log_failed") /\ reqs[r].user_id = u) =>
                       /\ CountsFailure(r)
                       /\ reqs'[r].user.locked_until = now + 30 * 60
                       /\ reqs'[r].user.locked_until > users[u].locked_until
        \* the commit that follows writes the counter and the lock as counted
        /\ \A r \in DOMAIN reqs :
             (Passes(r, "commit_failed") /\ reqs[r].user_id = u) =>
               /\ users'[u].locked_until = reqs[r].user.locked_until
               /\ users'[u].failed_login_attempts =
                    users[u].failed_login_attempts + 1
      ]_vars

\* the lock of the fifth failure ran out, and the sixth failure locked the
\* account again
C25_Witness ==
    /\ resp.op = "login" /\ resp.detail = "Incorrect username or password"
    /\ users[1].failed_login_attempts = 6
    /\ now > 30 * 60
    /\ users[1].locked_until = now + 30 * 60
    /\ security_events = FailureEvents(1, 6)

\* the account of the request on connection r is locked now
LockedNow(r) ==
    /\ reqs[r].user_id # NoUser
    /\ users[reqs[r].user_id].locked_until # NULL
    /\ now < users[reqs[r].user_id].locked_until

\* C26: while an account is locked (now < locked_until) a wrong-password
\* login gets the generic 'Incorrect username or password' answer, never the
\* locked one, adds 1 to failed_login_attempts and moves locked_until to
\* 30 minutes after the time the handler counts it, so wrong passwords
\* repeated within the lock keep the account locked.
C26_WrongPasswordExtendsLock ==
    [][\A r \in DOMAIN reqs :
         /\ GivesDecided(r)
         /\ Selects(r) =>
              LET a == reqs[r].args
                  uid == FindByUsernameOrEmail(a.username)
              IN (/\ uid # NoUser
                  /\ users[uid].locked_until # NULL
                  /\ now < users[uid].locked_until
                  /\ ~PasswordOk(uid, a.password)) =>
                   /\ reqs'[r].pc = "log_failed"
                   /\ reqs'[r].user_id = uid
                   /\ Decided(r).status = 401
                   /\ Decided(r).detail = "Incorrect username or password"
                   /\ Decided(r).until = NULL
         /\ (Passes(r, "log_failed") /\ LockedNow(r)) =>
              /\ CountsFailure(r)
              /\ users' = users
              /\ reqs'[r].user.locked_until = now + 30 * 60
              /\ reqs'[r].user.locked_until >= users[reqs[r].user_id].locked_until
         /\ (Passes(r, "commit_failed") /\ LockedNow(r)) =>
              LET uid == reqs[r].user_id
              IN /\ users'[uid].failed_login_attempts =
                      users[uid].failed_login_attempts + 1
                 /\ users'[uid].locked_until = reqs[r].user.locked_until
                 /\ users'[uid].locked_until >= users[uid].locked_until
                 /\ Answered(r)
      ]_vars

\* a wrong password during the lock of the fifth failure moved the end of
\* the lock to 30 minutes from now
C26_Witness ==
    /\ resp.op = "login" /\ resp.detail = "Incorrect username or password"
    /\ users[1].failed_login_attempts = 6
    /\ now > 0 /\ now < 30 * 60
    /\ users[1].locked_until = now + 30 * 60
    /\ security_events = FailureEvents(1, 6)

\* C27: a login that passes the password check and fails the 2FA step (code
\* missing or wrong) leaves failed_login_attempts and locked_until as they
\* were: the counter is neither incremented, so wrong codes never lock the
\* account, nor reset, so the right password alone does not clear earlier
\* failures of a 2FA account.
C27_TwoFactorFailureFrame ==
    [][\A r \in DOMAIN reqs :
         /\ GivesDecided(r)
         /\ Selects(r) =>
              LET a == reqs[r].args
              IN (/\ CredentialsOk(a.username, a.password)
                  /\ Account(a.username).is_active
                  /\ Unlocked(Account(a.username))
                  /\ ~TwoFactorOk(Account(a.username), a.totp_code)) =>
                   /\ Decided(r).status \in {400, 401} /\ NoTokens(Decided(r))
                   /\ Decided(r).detail = IF a.totp_code = NoCode
                                          THEN "TOTP code required for 2FA"
                                          ELSE "Invalid TOTP code"
                   /\ reqs'[r].pc = IF a.totp_code = NoCode THEN "done"
                                    ELSE "log_totp"
                   /\ users' = users
         /\ Passes(r, "log_totp") =>
              LET uid == reqs[r].user_id
              IN /\ users'[uid].failed_login_attempts =
                      users[uid].failed_login_attempts
                 /\ users'[uid].locked_until = users[uid].locked_until
                 /\ Answered(r)
      ]_vars

\* two wrong codes with the right password: the four earlier failures are
\* still counted and the account is not locked
C27_Witness ==
    /\ resp.op = "login" /\ resp.detail = "Invalid TOTP code"
    /\ users[1].failed_login_attempts = 4
    /\ users[1].locked_until = NULL
    /\ CopiesIn([event_type |-> "2fa_failed", severity |-> "high",
                 user_id |-> 1], security_events) = 2

\* C28: under every interleaving of concurrent setup2fa, verify2faSetup and
\* disable2fa requests on one account, each reading the row, checking it and
\* committing the fields it changed, no state has 2FA enabled without a
\* stored secret.
C28_EnabledHasSecretConcurrently ==
    ~\E u \in Rows : users[u].is_2fa_enabled /\ users[u].totp_secret = NULL

\* the handlers authenticated by an access token
TokenOps ==
    {"logout", "change_password", "change_user_password", "setup_2fa",
     "verify_2fa_setup", "disable_2fa"}

\* C29: the handlers authenticated by an access token (logout,
\* changePassword, setup2fa, verify2faSetup, disable2fa) authorize on the
\* token alone: an unexpired access token is accepted whatever is_active and
\* locked_until are, also after the account was deactivated or locked or
\* its password changed, and the call succeeds when its other inputs are
\* right; an expired one is refused 401. Only refresh looks at is_active,
\* and nothing looks at the lock.
C29_TokenAloneAuthorizes ==
    [][\A r \in DOMAIN reqs :
        /\ GivesDecided(r)
        \* on arrival the token decides, and nothing else
        /\ Arrives(r) =>
             \A token \in SessionAccessTokens, password \in TwoFactorPasswords,
                totp_code \in SessionCodes, route \in Routes :
                (\/ Logout(r, token)
                 \/ ChangePassword(r, route, token, password, PwNew, PwNew)
                 \/ Setup2fa(r, token, password)
                 \/ Verify2faSetup(r, token, totp_code)
                 \/ Disable2fa(r, token, password, totp_code)) =>
                   IF Valid(token, "access")
                   THEN reqs'[r].pc \in {"get", "log"}
                   ELSE reqs'[r].pc = "done" /\ resp'.status = 401
        \* the handler that runs refuses nobody for is_active or for the lock
        /\ (reqs[r].op \in TokenOps /\ Passes(r, reqs[r].pc)) =>
             Decided(r).status \notin {401, 403}
        /\ (reqs[r].op = "logout" /\ Passes(r, "log")) => resp'.status = 200
        /\ (reqs[r].op \in TokenOps /\ Passes(r, "get")) =>
             LET a == reqs[r].args
                 pw == PasswordOk(1, IF ChangesPassword(reqs[r])
                                     THEN a.current_password ELSE a.password)
                 code == /\ users[1].totp_secret # NULL
                         /\ CodeInWindow(users[1].totp_secret, a.totp_code)
                 status == Decided(r).status
             IN /\ Caller(r) = 1
                /\ (ChangesPassword(reqs[r]) /\ pw) => status = 200
                /\ (reqs[r].op = "setup_2fa" /\ pw) => status = 200
                /\ (reqs[r].op = "verify_2fa_setup" /\ code) => status = 200
                /\ (reqs[r].op = "disable_2fa" /\ pw /\ code) => status = 200
        /\ Gets(r, "refresh") =>
             (resp'.status = 200 <=> users[Caller(r)].is_active)
      ]_vars

\* with the token of the earlier login, 2FA was switched off on an account
\* that has since been locked, deactivated and given a new password
C29_Witness ==
    /\ resp.op = "disable_2fa" /\ resp.status = 200
    /\ ~users[1].is_active
    /\ users[1].locked_until # NULL /\ users[1].locked_until > now
    /\ verify_password(PwNew, users[1].hashed_password)
    /\ ~users[1].is_2fa_enabled

\* C30: login and refresh report expires_in = the configured access-token
\* lifetime in minutes * 60, whatever remember_me is; without remember_me,
\* and for refresh, that is the lifetime of the access token issued; with
\* remember_me the access token is issued for 7 days while expires_in still
\* reports the default, so the two differ.
C30_ExpiresInIsDefault ==
    [][ \A r \in DOMAIN reqs :
          /\ GivesDecided(r)
          /\ (Selects(r) /\ Decided(r).status = 200) =>
               /\ Decided(r).expires_in = 30 * 60
               /\ ~reqs[r].args.remember_me =>
                    Decided(r).access_token.exp - now = Decided(r).expires_in
               /\ reqs[r].args.remember_me =>
                    /\ Decided(r).access_token.exp - now = 7 * 86400
                    /\ Decided(r).access_token.exp - now # Decided(r).expires_in
          /\ (Gets(r, "refresh") /\ resp'.status = 200) =>
               /\ resp'.expires_in = 30 * 60
               /\ resp'.access_token.exp - now = resp'.expires_in
      ]_vars

\* a login with remember_me to a 2FA account: the token runs for seven days
\* and the response says 1800 seconds
C30_Witness ==
    /\ resp.op = "login" /\ resp.status = 200
    /\ now > 0
    /\ resp.access_token.exp = now + 604800
    /\ resp.expires_in = 1800
    /\ resp.user.is_2fa_enabled
====
